---- MODULE Spec2Model ----
(***************************************************************************)
(* A model of the grid-layout engine of react-grid-layout (with grouping): *)
(* the layout algorithms of src/lib/utils.js and the drag / resize /       *)
(* grouping handlers of src/lib/ReactGridLayout.jsx.                        *)
(*                                                                         *)
(* A layout is a sequence of item records.  JavaScript objects that the    *)
(* code mutates in place are addressed by their index in the layout array  *)
(* (no operation of the movers reorders or resizes that array), so an      *)
(* in-place mutation is an EXCEPT on the sequence and the value an         *)
(* operator returns is the array as it stands after the call.              *)
(***************************************************************************)
EXTENDS Integers, Sequences, FiniteSets, TLC

VARIABLES
  props,             \* this.props: cols, compactType, allowOverlap, preventCollision
  engine,            \* how Array.prototype.sort orders items an inconsistent comparator ties
  layout,            \* this.state.layout
  activeDrag,        \* this.state.activeDrag: the key of the placeholder, or NoKey (null)
  resizing,          \* this.state.resizing
  groupingTarget,    \* this.state.groupingTarget, or NoKey (null)
  groupingTimer,     \* this.state.groupingTimer: the timeout last started, or NoTimer (null)
  isGroupDroppable,  \* this.state.isGroupDroppable
  timers,            \* the timeouts that are pending in the event loop
  mounted,           \* FALSE once componentWillUnmount has run
  last,              \* what the handlers did last ("left": the pointer left its target;
                     \* "absent": no item has the key the handler was called with)
  pc,                \* position of the single-call specifications
  fnIn,              \* their input
  fnOut              \* their result

vars == <<props, engine, layout, activeDrag, resizing, groupingTarget,
          groupingTimer, isGroupDroppable, timers, mounted, last, pc, fnIn,
          fnOut>>

compVars == <<props, layout, activeDrag, resizing, groupingTarget, groupingTimer,
              isGroupDroppable, timers, mounted, last>>

fnVars == <<pc, fnIn, fnOut>>

-----------------------------------------------------------------------------
(* Bounds of the model.                                                    *)

GridCols == 3      \* columnCount of the modelled grids
MaxY == 1          \* largest y of an input item or of a release cell
MaxH == 2          \* largest h of an input item or of a resize
MaxClock == 2      \* number of distinct readings Date.now() can return
MaxRows == 3       \* rows of the grid a stored layout may extend over

\* The delay of the grouping timer and the step in which time passes.
GroupDelay == 1000
TickMs == 500

-----------------------------------------------------------------------------
(* Values.                                                                 *)

\* `undefined` passed for an x or y argument (coordinates are >= 0).
Undefined == -1

NoKey == ""

\* body applied to the value v: a local constant that is computed once.
Bind(v, body(_)) == body(v)

Min(a, b) == IF a < b THEN a ELSE b
Max(a, b) == IF a > b THEN a ELSE b

RECURSIVE Reverse(_)
Reverse(s) == IF s = <<>> THEN <<>> ELSE Append(Reverse(Tail(s)), Head(s))

\* An item as cloneLayoutItem leaves it.  moved and static are Boolean(...) of
\* the field; isDraggable and isResizable are "true", "false" or "unset"
\* (null or undefined: inherit from the container).
Item(i, x, y, w, h) ==
  [i |-> i, x |-> x, y |-> y, w |-> w, h |-> h, moved |-> FALSE,
   static |-> FALSE, isDraggable |-> "unset", isResizable |-> "unset",
   isGroup |-> FALSE, children |-> <<>>]

cloneLayoutItem(layoutItem) == layoutItem

cloneLayout(lay) == [k \in 1..Len(lay) |-> cloneLayoutItem(lay[k])]

-----------------------------------------------------------------------------
(* Geometry.                                                               *)

\* collides that takes rectangles sharing an edge for colliding.
collidesTouching(l1, l2) ==
  IF l1.i = l2.i THEN FALSE
  ELSE IF l1.x + l1.w < l2.x THEN FALSE
  ELSE IF l1.x > l2.x + l2.w THEN FALSE
  ELSE IF l1.y + l1.h < l2.y THEN FALSE
  ELSE IF l1.y > l2.y + l2.h THEN FALSE
  ELSE TRUE

collides(l1, l2) ==
  IF l1.i = l2.i THEN FALSE
  ELSE IF l1.x + l1.w <= l2.x THEN FALSE
  ELSE IF l1.x >= l2.x + l2.w THEN FALSE
  ELSE IF l1.y + l1.h <= l2.y THEN FALSE
  ELSE IF l1.y >= l2.y + l2.h THEN FALSE
  ELSE TRUE

RECURSIVE bottomFrom(_, _, _)
bottomFrom(lay, k, max) ==
  IF k > Len(lay) THEN max
  ELSE bottomFrom(lay, k + 1,
                  IF lay[k].y + lay[k].h > max THEN lay[k].y + lay[k].h ELSE max)

bottom(lay) == bottomFrom(lay, 1, 0)

\* Index of the item with key id, 0 when there is none (undefined).
getLayoutItem(lay, id) ==
  IF \E k \in 1..Len(lay) : lay[k].i = id
  THEN CHOOSE k \in 1..Len(lay) :
         lay[k].i = id /\ \A j \in 1..(k - 1) : lay[j].i # id
  ELSE 0

\* Index in lay of the first item colliding with layoutItem, 0 when none.
getFirstCollision(lay, layoutItem) ==
  IF \E k \in 1..Len(lay) : collides(lay[k], layoutItem)
  THEN CHOOSE k \in 1..Len(lay) :
         collides(lay[k], layoutItem)
         /\ \A j \in 1..(k - 1) : ~collides(lay[j], layoutItem)
  ELSE 0

\* order is a sequence of indices into lay; the colliding ones, in that order.
getAllCollisions(lay, order, layoutItem) ==
  SelectSeq(order, LAMBDA k : collides(lay[k], layoutItem))

getStatics(lay) == SelectSeq(lay, LAMBDA l : l.static)

-----------------------------------------------------------------------------
(* Sorting.  The result is the permutation of the indices of the layout.   *)

\* The k-th smallest index under the strict total order before, a set of
\* pairs <<j, k>> of indices: j sorts before k.
SortIndices(n, before) ==
  [p \in 1..n |->
     CHOOSE k \in 1..n :
       Cardinality({j \in 1..n : <<j, k>> \in before}) = p - 1]

\* The comparator returns 0 on equal cells: a stable sort keeps array order.
sortLayoutItemsByRowCol(lay) ==
  SortIndices(Len(lay),
    {jk \in (1..Len(lay)) \X (1..Len(lay)) :
      LET j == jk[1]
          k == jk[2]
      IN \/ lay[j].y < lay[k].y
         \/ lay[j].y = lay[k].y /\ lay[j].x < lay[k].x
         \/ lay[j].y = lay[k].y /\ lay[j].x = lay[k].x /\ j < k})

\* The comparator never returns 0: for two items in the same cell it answers
\* "a before b" whichever way it is asked, so their order is the engine's
\* (insertion keeps asking (later, earlier), which reverses them).
sortLayoutItemsByColRow(lay) ==
  SortIndices(Len(lay),
    {jk \in (1..Len(lay)) \X (1..Len(lay)) :
      LET j == jk[1]
          k == jk[2]
      IN \/ lay[j].x < lay[k].x
         \/ lay[j].x = lay[k].x /\ lay[j].y < lay[k].y
         \/ lay[j].x = lay[k].x /\ lay[j].y = lay[k].y
            /\ IF engine = "reversed" THEN j > k ELSE j < k})

sortLayoutItems(lay, compactType) ==
  IF compactType = "horizontal" THEN sortLayoutItemsByColRow(lay)
  ELSE IF compactType = "vertical" THEN sortLayoutItemsByRowCol(lay)
  ELSE [k \in 1..Len(lay) |-> k]

-----------------------------------------------------------------------------
(* The mover.                                                              *)

RECURSIVE moveElement(_, _, _, _, _, _, _, _, _)
RECURSIVE moveElementAwayFromCollision(_, _, _, _, _, _)
RECURSIVE resolveCollisions(_, _, _, _, _, _, _)

\* The for loop of moveElement over `collisions` (indices found before the
\* loop); lay is the array as mutated so far.
resolveCollisions(lay, l, collisions, n, isUserAction, compactType, cols) ==
  IF n > Len(collisions) THEN lay
  ELSE
    LET collision == collisions[n] IN
    IF lay[collision].moved
    THEN resolveCollisions(lay, l, collisions, n + 1, isUserAction,
                           compactType, cols)
    ELSE IF lay[collision].static
    THEN resolveCollisions(
           moveElementAwayFromCollision(lay, collision, l, isUserAction,
                                        compactType, cols),
           l, collisions, n + 1, isUserAction, compactType, cols)
    ELSE resolveCollisions(
           moveElementAwayFromCollision(lay, l, collision, isUserAction,
                                        compactType, cols),
           l, collisions, n + 1, isUserAction, compactType, cols)

\* moveElement that keeps the item at the requested cell when
\* preventCollision finds a collision there.
moveElementNoRevert(lay, l, x, y, isUserAction, preventCollision, compactType, cols, allowOverlap) ==
  IF lay[l].static /\ lay[l].isDraggable # "true" THEN lay
  ELSE IF lay[l].y = y /\ lay[l].x = x THEN lay
  ELSE
    Bind([lay EXCEPT ![l].x = IF x # Undefined THEN x ELSE @,
                     ![l].y = IF y # Undefined THEN y ELSE @,
                     ![l].moved = TRUE],
         LAMBDA placed :
      Bind(getAllCollisions(placed, sortLayoutItems(placed, compactType),
                            placed[l]),
           LAMBDA collisions :
        IF Len(collisions) > 0 /\ (allowOverlap \/ preventCollision)
        THEN placed
        ELSE resolveCollisions(placed, l, collisions, 1, isUserAction,
                               compactType, cols)))

\* moveElement that takes a static item for fixed only when its isDraggable
\* is false.
moveElementUnsetDraggable(lay, l, x, y, isUserAction, preventCollision, compactType, cols, allowOverlap) ==
  IF lay[l].static /\ lay[l].isDraggable = "false" THEN lay
  ELSE IF lay[l].y = y /\ lay[l].x = x THEN lay
  ELSE
    LET oldX == lay[l].x
        oldY == lay[l].y
        placed == [lay EXCEPT ![l].x = IF x # Undefined THEN x ELSE @,
                              ![l].y = IF y # Undefined THEN y ELSE @,
                              ![l].moved = TRUE]
        movingUp ==
          IF compactType = "vertical" /\ y # Undefined THEN oldY >= y
          ELSE IF compactType = "horizontal" /\ x # Undefined THEN oldX >= x
          ELSE FALSE
    IN
    Bind(sortLayoutItems(placed, compactType), LAMBDA sorted :
      Bind(getAllCollisions(placed,
                            IF movingUp THEN Reverse(sorted) ELSE sorted,
                            placed[l]),
           LAMBDA collisions :
        LET hasCollisions == Len(collisions) > 0 IN
        IF hasCollisions /\ allowOverlap THEN cloneLayout(placed)
        ELSE IF hasCollisions /\ preventCollision
        THEN [placed EXCEPT ![l].x = oldX, ![l].y = oldY, ![l].moved = FALSE]
        ELSE resolveCollisions(placed, l, collisions, 1, isUserAction,
                               compactType, cols)))

\* The items of the array handed to moveElement as the call leaves them.
\* moveElement and moveElementAwayFromCollision assign to the item objects
\* of that array only, and the array returned holds these same objects or,
\* from cloneLayout, copies made after the assignments.
moveElementInput(lay, l, x, y, isUserAction, preventCollision, compactType, cols, allowOverlap) ==
  moveElement(lay, l, x, y, isUserAction, preventCollision, compactType, cols,
              allowOverlap)

\* moveElement that returns `layout` from its cloneLayout branch too.
moveElementReturnsLayout(lay, l, x, y, allowOverlap) == TRUE

\* Whether the array moveElement returns is the array it was given (every
\* return statement but the cloneLayout one returns `layout`).
moveElementReturnsInput(lay, l, x, y, allowOverlap) ==
  \/ lay[l].static /\ lay[l].isDraggable # "true"
  \/ lay[l].y = y /\ lay[l].x = x
  \/ ~allowOverlap
  \/ LET placed == [lay EXCEPT ![l].x = IF x # Undefined THEN x ELSE @,
                               ![l].y = IF y # Undefined THEN y ELSE @]
     IN \A k \in 1..Len(lay) : ~collides(placed[k], placed[l])

\* l is the index of the item to move; x, y a number or Undefined.
moveElement(lay, l, x, y, isUserAction, preventCollision, compactType, cols, allowOverlap) ==
  IF lay[l].static /\ lay[l].isDraggable # "true" THEN lay
  ELSE IF lay[l].y = y /\ lay[l].x = x THEN lay
  ELSE
    LET oldX == lay[l].x
        oldY == lay[l].y
        placed == [lay EXCEPT ![l].x = IF x # Undefined THEN x ELSE @,
                              ![l].y = IF y # Undefined THEN y ELSE @,
                              ![l].moved = TRUE]
        movingUp ==
          IF compactType = "vertical" /\ y # Undefined THEN oldY >= y
          ELSE IF compactType = "horizontal" /\ x # Undefined THEN oldX >= x
          ELSE FALSE
    IN
    Bind(sortLayoutItems(placed, compactType), LAMBDA sorted :
      Bind(getAllCollisions(placed,
                            IF movingUp THEN Reverse(sorted) ELSE sorted,
                            placed[l]),
           LAMBDA collisions :
        LET hasCollisions == Len(collisions) > 0 IN
        IF hasCollisions /\ allowOverlap THEN cloneLayout(placed)
        ELSE IF hasCollisions /\ preventCollision
        THEN [placed EXCEPT ![l].x = oldX, ![l].y = oldY, ![l].moved = FALSE]
        ELSE resolveCollisions(placed, l, collisions, 1, isUserAction,
                               compactType, cols)))

\* collidesWith and itemToMove are indices into lay.
moveElementAwayFromCollision(lay, collidesWith, itemToMove, isUserAction, compactType, cols) ==
  LET compactH == compactType = "horizontal"
      compactV == compactType = "vertical"
      preventCollision == lay[collidesWith].static
      fakeItem ==
        Item("-1",
             IF compactH
             THEN Max(lay[collidesWith].x - lay[itemToMove].w, 0)
             ELSE lay[itemToMove].x,
             IF compactV
             THEN Max(lay[collidesWith].y - lay[itemToMove].h, 0)
             ELSE lay[itemToMove].y,
             lay[itemToMove].w, lay[itemToMove].h)
  IN
  Bind(IF isUserAction THEN getFirstCollision(lay, fakeItem) ELSE 0,
       LAMBDA firstCollision :
    LET collisionNorth ==
          firstCollision # 0
          /\ lay[firstCollision].y + lay[firstCollision].h
               > lay[collidesWith].y
        collisionWest ==
          firstCollision # 0
          /\ lay[collidesWith].x + lay[collidesWith].w
               > lay[firstCollision].x
        \* the branch taken: its item to move and its target cell
        branch ==
          IF isUserAction /\ firstCollision = 0 THEN "free"
          ELSE IF isUserAction /\ collisionNorth /\ compactV THEN "north"
          ELSE IF isUserAction /\ collisionNorth /\ compactType = "none"
          THEN "swap"
          ELSE IF isUserAction /\ collisionWest /\ compactH THEN "west"
          ELSE IF ~compactH /\ ~compactV THEN "stay"
          ELSE "push"
    IN
    IF branch = "swap"
    THEN [lay EXCEPT ![collidesWith].y = lay[itemToMove].y,
                     ![itemToMove].y = lay[itemToMove].y + lay[itemToMove].h]
    ELSE IF branch = "stay" THEN lay
    ELSE moveElement(
           lay,
           IF branch = "west" THEN collidesWith ELSE itemToMove,
           CASE branch = "free" -> IF compactH THEN fakeItem.x ELSE Undefined
             [] branch = "north" -> Undefined
             [] branch = "west" -> lay[itemToMove].x
             [] OTHER -> IF compactH THEN lay[itemToMove].x + 1 ELSE Undefined,
           CASE branch = "free" -> IF compactV THEN fakeItem.y ELSE Undefined
             [] branch = "north" -> lay[collidesWith].y + 1
             [] branch = "west" -> Undefined
             [] OTHER -> IF compactV THEN lay[itemToMove].y + 1 ELSE Undefined,
           FALSE, preventCollision, compactType, cols, FALSE))

-----------------------------------------------------------------------------
(* The compactor.  `full` is the sorted array of the input's own item      *)
(* objects, which resolveCompactionCollision mutates; l is the clone being *)
(* placed.                                                                 *)

SetCoord(item, axis, v) ==
  IF axis = "x" THEN [item EXCEPT !.x = v] ELSE [item EXCEPT !.y = v]

Coord(item, axis) == IF axis = "x" THEN item.x ELSE item.y

\* heightWidth[axis]
SizeProp(item, axis) == IF axis = "x" THEN item.w ELSE item.h

IndexOfKey(full, id) == getLayoutItem(full, id)

RECURSIVE resolveCompactionLoop(_, _, _, _, _)
RECURSIVE resolveCompactionCollision(_, _, _, _, _)

\* The for loop of resolveCompactionCollision from index n on; item already
\* has its coordinate incremented.  Returns the array with the pushed items.
resolveCompactionLoop(full, item, n, moveToCoord, axis) ==
  IF n > Len(full) THEN full
  ELSE
    LET otherItem == full[n] IN
    IF otherItem.static
    THEN resolveCompactionLoop(full, item, n + 1, moveToCoord, axis)
    ELSE IF otherItem.y > item.y + item.h THEN full
    ELSE IF collides(item, otherItem)
    THEN resolveCompactionLoop(
           resolveCompactionCollision(full, otherItem, n,
                                      moveToCoord + SizeProp(item, axis),
                                      axis).full,
           item, n + 1, moveToCoord, axis)
    ELSE resolveCompactionLoop(full, item, n + 1, moveToCoord, axis)

\* pos is the slot of `full` that holds the object `item`, 0 when item is a
\* clone outside the array (the call from compactItem).  Returns the item
\* moved to moveToCoord and the array after the pushes.
resolveCompactionCollision(full, item, pos, moveToCoord, axis) ==
  Bind(SetCoord(item, axis, Coord(item, axis) + 1), LAMBDA bumped :
    Bind(resolveCompactionLoop(
           IF pos # 0 THEN [full EXCEPT ![pos] = bumped] ELSE full,
           bumped, IndexOfKey(full, item.i) + 1, moveToCoord, axis),
         LAMBDA pushed :
      Bind(SetCoord(bumped, axis, moveToCoord), LAMBDA placed :
        [item |-> placed,
         full |-> IF pos # 0 THEN [pushed EXCEPT ![pos] = placed]
                  ELSE pushed])))

RECURSIVE slideUp(_, _)
slideUp(compareWith, l) ==
  IF l.y > 0 /\ getFirstCollision(compareWith, l) = 0
  THEN slideUp(compareWith, [l EXCEPT !.y = @ - 1])
  ELSE l

\* slideLeft with the loop run at most once.
slideLeftOnce(compareWith, l) ==
  IF l.x > 0 /\ getFirstCollision(compareWith, l) = 0
  THEN [l EXCEPT !.x = @ - 1]
  ELSE l

RECURSIVE slideLeft(_, _)
slideLeft(compareWith, l) ==
  IF l.x > 0 /\ getFirstCollision(compareWith, l) = 0
  THEN slideLeft(compareWith, [l EXCEPT !.x = @ - 1])
  ELSE l

RECURSIVE compactItemLoop(_, _, _, _, _, _)
\* The while loop of compactItem.
compactItemLoop(compareWith, l, compactType, cols, full, allowOverlap) ==
  Bind(getFirstCollision(compareWith, l), LAMBDA c :
    IF c = 0 \/ (compactType = "none" /\ allowOverlap)
    THEN [item |-> l, full |-> full]
    ELSE
      LET compactH == compactType = "horizontal" IN
      Bind(resolveCompactionCollision(
             full, l, 0,
             IF compactH THEN compareWith[c].x + compareWith[c].w
             ELSE compareWith[c].y + compareWith[c].h,
             IF compactH THEN "x" ELSE "y"),
           LAMBDA r :
        compactItemLoop(
          compareWith,
          IF compactH /\ r.item.x + r.item.w > cols
          THEN slideLeft(compareWith,
                         [r.item EXCEPT !.x = cols - r.item.w,
                                        !.y = r.item.y + 1])
          ELSE r.item,
          compactType, cols, r.full, allowOverlap)))

\* compactItem without the loop that moves the item off what it collides
\* with.
compactItemSlideOnly(compareWith, l, compactType, cols, fullLayout, allowOverlap) ==
  [item |-> IF compactType = "vertical"
            THEN slideUp(compareWith,
                         [l EXCEPT !.y = Min(bottom(compareWith), l.y)])
            ELSE IF compactType = "horizontal"
            THEN slideLeft(compareWith, l)
            ELSE l,
   full |-> fullLayout]

compactItem(compareWith, l, compactType, cols, fullLayout, allowOverlap) ==
  Bind(compactItemLoop(
         compareWith,
         IF compactType = "vertical"
         THEN slideUp(compareWith,
                      [l EXCEPT !.y = Min(bottom(compareWith), l.y)])
         ELSE IF compactType = "horizontal"
         THEN slideLeft(compareWith, l)
         ELSE l,
         compactType, cols, fullLayout, allowOverlap),
       LAMBDA r :
    [item |-> [r.item EXCEPT !.y = Max(r.item.y, 0), !.x = Max(r.item.x, 0)],
     full |-> r.full])

RECURSIVE compactLoopMovableOnly(_, _, _, _, _, _, _, _)
\* The for loop of compact clearing the moved flag of the items it has
\* compacted only.
compactLoopMovableOnly(sorted, full, compareWith, out, n, compactType, cols, allowOverlap) ==
  IF n > Len(sorted) THEN [out |-> out, full |-> full]
  ELSE
    LET l == cloneLayoutItem(full[n]) IN
    IF l.static
    THEN compactLoopMovableOnly(sorted, full, compareWith,
                     [out EXCEPT ![sorted[n]] = l],
                     n + 1, compactType, cols, allowOverlap)
    ELSE
      Bind(compactItem(compareWith, l, compactType, cols, full,
                       allowOverlap),
           LAMBDA r :
        Bind([r.item EXCEPT !.moved = FALSE], LAMBDA done :
          compactLoopMovableOnly(sorted, r.full, Append(compareWith, done),
                      [out EXCEPT ![sorted[n]] = done],
                      n + 1, compactType, cols, allowOverlap)))

RECURSIVE compactLoop(_, _, _, _, _, _, _, _)
\* The for loop of compact.  sorted: the indices of the input in sorted
\* order; full: the input's item objects in that order (as mutated so far);
\* out: the output array, filled by input index.
compactLoop(sorted, full, compareWith, out, n, compactType, cols, allowOverlap) ==
  IF n > Len(sorted) THEN [out |-> out, full |-> full]
  ELSE
    LET l == cloneLayoutItem(full[n]) IN
    IF l.static
    THEN compactLoop(sorted, full, compareWith,
                     [out EXCEPT ![sorted[n]] = [l EXCEPT !.moved = FALSE]],
                     n + 1, compactType, cols, allowOverlap)
    ELSE
      Bind(compactItem(compareWith, l, compactType, cols, full,
                       allowOverlap),
           LAMBDA r :
        Bind([r.item EXCEPT !.moved = FALSE], LAMBDA done :
          compactLoop(sorted, r.full, Append(compareWith, done),
                      [out EXCEPT ![sorted[n]] = done],
                      n + 1, compactType, cols, allowOverlap)))

\* compact as a whole: .out is the returned layout, .input the input array's
\* items after the call (the pushes of resolveCompactionCollision land there).
compactCall(lay, compactType, cols, allowOverlap) ==
  Bind(sortLayoutItems(lay, compactType), LAMBDA sorted :
    Bind(compactLoop(sorted, [n \in 1..Len(lay) |-> lay[sorted[n]]],
                     getStatics(lay), lay, 1, compactType, cols,
                     allowOverlap),
         LAMBDA r :
      [out |-> r.out,
       input |-> [k \in 1..Len(lay) |->
                    r.full[CHOOSE n \in 1..Len(lay) : sorted[n] = k]]]))

compact(lay, compactType, cols, allowOverlap) ==
  compactCall(lay, compactType, cols, allowOverlap).out

-----------------------------------------------------------------------------
(* Bounds correction and synchronization.                                  *)

RECURSIVE pushStaticDown(_, _, _)
\* while (getFirstCollision(collidesWith, l)) l.y++ for the static lay[k];
\* collidesWith holds references, so it is read through the live array.
pushStaticDown(lay, collidesWith, k) ==
  IF \E n \in 1..Len(collidesWith) : collides(lay[collidesWith[n]], lay[k])
  THEN pushStaticDown([lay EXCEPT ![k].y = @ + 1], collidesWith, k)
  ELSE lay

\* correctBounds without the reset of an item that begins left of column 0.
RECURSIVE correctBoundsLoopRightOnly(_, _, _, _)
correctBoundsLoopRightOnly(lay, collidesWith, k, cols) ==
  IF k > Len(lay) THEN lay
  ELSE
    LET right == IF lay[k].x + lay[k].w > cols
                 THEN [lay EXCEPT ![k].x = cols - lay[k].w] ELSE lay
        left == right
    IN
    IF ~left[k].static
    THEN correctBoundsLoopRightOnly(left, Append(collidesWith, k), k + 1, cols)
    ELSE correctBoundsLoopRightOnly(pushStaticDown(left, collidesWith, k),
                           collidesWith, k + 1, cols)

RECURSIVE correctBoundsLoop(_, _, _, _)
correctBoundsLoop(lay, collidesWith, k, cols) ==
  IF k > Len(lay) THEN lay
  ELSE
    LET right == IF lay[k].x + lay[k].w > cols
                 THEN [lay EXCEPT ![k].x = cols - lay[k].w] ELSE lay
        left == IF right[k].x < 0
                THEN [right EXCEPT ![k].x = 0, ![k].w = cols] ELSE right
    IN
    IF ~left[k].static
    THEN correctBoundsLoop(left, Append(collidesWith, k), k + 1, cols)
    ELSE correctBoundsLoop(pushStaticDown(left, collidesWith, k),
                           collidesWith, k + 1, cols)

\* The indices of the static items, as getStatics(layout) holds their objects.
StaticIndices(lay) ==
  SelectSeq([k \in 1..Len(lay) |-> k], LAMBDA k : lay[k].static)

correctBounds(lay, cols) ==
  correctBoundsLoop(lay, StaticIndices(lay), 1, cols)

\* A child descriptor: its key and its data-grid prop (NoGrid when it has
\* none).
NoGrid == [x |-> Undefined, y |-> Undefined, w |-> Undefined, h |-> Undefined]

RECURSIVE synchronizeLoopGridLoses(_, _, _, _)
\* synchronizeLoop in which the item of initialLayout wins over data-grid.
synchronizeLoopGridLoses(initialLayout, children, n, built) ==
  IF n > Len(children) THEN built
  ELSE
    LET child == children[n]
        exists == getLayoutItem(initialLayout, child.key)
        g == child.grid
    IN
    IF exists # 0
    THEN synchronizeLoopGridLoses(initialLayout, children, n + 1,
                         Append(built, cloneLayoutItem(initialLayout[exists])))
    ELSE IF g # NoGrid
    THEN synchronizeLoopGridLoses(initialLayout, children, n + 1,
                         Append(built, Item(child.key, g.x, g.y, g.w, g.h)))
    ELSE synchronizeLoopGridLoses(initialLayout, children, n + 1,
                         Append(built, Item(child.key, 0, bottom(built), 1, 1)))

RECURSIVE synchronizeLoop(_, _, _, _)
synchronizeLoop(initialLayout, children, n, built) ==
  IF n > Len(children) THEN built
  ELSE
    LET child == children[n]
        exists == getLayoutItem(initialLayout, child.key)
        g == child.grid
    IN
    IF exists # 0 /\ g = NoGrid
    THEN synchronizeLoop(initialLayout, children, n + 1,
                         Append(built, cloneLayoutItem(initialLayout[exists])))
    ELSE IF g # NoGrid
    THEN synchronizeLoop(initialLayout, children, n + 1,
                         Append(built, Item(child.key, g.x, g.y, g.w, g.h)))
    ELSE synchronizeLoop(initialLayout, children, n + 1,
                         Append(built, Item(child.key, 0, bottom(built), 1, 1)))

synchronizeLayoutWithChildren(initialLayout, children, cols, compactType, allowOverlap) ==
  Bind(correctBounds(synchronizeLoop(initialLayout, children, 1, <<>>), cols),
       LAMBDA correctedLayout :
    IF allowOverlap THEN correctedLayout
    ELSE compact(correctedLayout, compactType, cols, FALSE))

-----------------------------------------------------------------------------
(* The grouping engine.                                                    *)

calculateHorizontalLayout(item1, item2) ==
  [w |-> item1.w + item2.w,
   h |-> Max(item1.h, item2.h),
   children |-> <<[item1 EXCEPT !.x = 0, !.y = 0],
                  [item2 EXCEPT !.x = item1.w, !.y = 0]>>]

calculateVerticalLayout(item1, item2) ==
  [w |-> Max(item1.w, item2.w),
   h |-> item1.h + item2.h,
   children |-> <<[item1 EXCEPT !.x = 0, !.y = 0],
                  [item2 EXCEPT !.x = 0, !.y = item1.h]>>]

\* createOptimalGroupLayout with the fit test strict.
createOptimalGroupLayoutStrict(draggingItem, targetItem, cols) ==
  LET horizontalLayout == calculateHorizontalLayout(draggingItem, targetItem)
      verticalLayout == calculateVerticalLayout(draggingItem, targetItem)
  IN
  Bind(IF targetItem.x + horizontalLayout.w < cols
       THEN horizontalLayout ELSE verticalLayout,
       LAMBDA selectedLayout :
    [groupPosition |-> [x |-> targetItem.x, y |-> targetItem.y],
     groupSize |-> [w |-> selectedLayout.w, h |-> selectedLayout.h],
     children |-> selectedLayout.children])

createOptimalGroupLayout(draggingItem, targetItem, cols) ==
  LET groupX == targetItem.x
      groupY == targetItem.y
      horizontalLayout == calculateHorizontalLayout(draggingItem, targetItem)
      verticalLayout == calculateVerticalLayout(draggingItem, targetItem)
      horizontalFitsInGrid == groupX + horizontalLayout.w <= cols
  IN
  Bind(IF horizontalFitsInGrid THEN horizontalLayout ELSE verticalLayout,
       LAMBDA selectedLayout :
    [groupPosition |-> [x |-> groupX, y |-> groupY],
     groupSize |-> [w |-> selectedLayout.w, h |-> selectedLayout.h],
     children |-> selectedLayout.children])

\* `group-${Date.now()}`
GroupId(dateNow) == "group-" \o ToString(dateNow)

createNewGroup(lay, draggingItem, targetItem, cols, dateNow) ==
  LET newLayout ==
        SelectSeq(lay, LAMBDA item :
                         item.i # draggingItem.i /\ item.i # targetItem.i)
  IN
  Bind(createOptimalGroupLayout(draggingItem, targetItem, cols),
       LAMBDA groupLayout :
    Append(newLayout,
           [Item(GroupId(dateNow),
                 groupLayout.groupPosition.x, groupLayout.groupPosition.y,
                 groupLayout.groupSize.w, groupLayout.groupSize.h)
              EXCEPT !.isGroup = TRUE, !.children = groupLayout.children]))

\* Row height that a wrap of calculateExpandedGroupLayout advances by.
WrapRowHeight == 2

RECURSIVE arrangeWidgets(_, _, _, _, _, _, _, _)
\* The map() of calculateExpandedGroupLayout from widget n on.
arrangeWidgets(allWidgets, n, groupStartX, maxCols, currentX, currentY, acc, size) ==
  IF n > Len(allWidgets) THEN [w |-> size.w, h |-> size.h, children |-> acc]
  ELSE
    LET widget == allWidgets[n]
        wouldFitInCurrentRow == groupStartX + currentX + widget.w <= maxCols
        wrap == ~wouldFitInCurrentRow /\ currentX > 0
        cx == IF wrap THEN 0 ELSE currentX
        cy == IF wrap THEN currentY + WrapRowHeight ELSE currentY
    IN arrangeWidgets(allWidgets, n + 1, groupStartX, maxCols,
                      cx + widget.w, cy,
                      Append(acc, [widget EXCEPT !.x = cx, !.y = cy]),
                      [w |-> Max(size.w, cx + widget.w),
                       h |-> Max(size.h, cy + widget.h)])

\* calculateExpandedGroupLayout measuring the row from the grid's first
\* column instead of the group's.
calculateExpandedGroupLayoutFromOrigin(allWidgets, existingGroup, cols) ==
  arrangeWidgets(allWidgets, 1, 0, cols, 0, 0, <<>>, [w |-> 0, h |-> 0])

calculateExpandedGroupLayout(allWidgets, existingGroup, cols) ==
  arrangeWidgets(allWidgets, 1, existingGroup.x, cols, 0, 0, <<>>,
                 [w |-> 0, h |-> 0])

\* addToExistingGroup that lays out the group's own children only.
addToExistingGroupWithoutItem(lay, draggingItem, targetGroup, cols) ==
  Bind(SelectSeq(lay, LAMBDA item : item.i # draggingItem.i),
       LAMBDA newLayout :
    Bind(getLayoutItem(newLayout, targetGroup.i), LAMBDA groupIndex :
      IF groupIndex = 0 THEN lay
      ELSE
        Bind(calculateExpandedGroupLayout(targetGroup.children, targetGroup,
                                          cols),
             LAMBDA expandedLayout :
          [newLayout EXCEPT ![groupIndex] =
             [targetGroup EXCEPT !.children = expandedLayout.children,
                                 !.w = expandedLayout.w,
                                 !.h = expandedLayout.h]])))

addToExistingGroup(lay, draggingItem, targetGroup, cols) ==
  Bind(SelectSeq(lay, LAMBDA item : item.i # draggingItem.i),
       LAMBDA newLayout :
    Bind(getLayoutItem(newLayout, targetGroup.i), LAMBDA groupIndex :
      IF groupIndex = 0 THEN lay
      ELSE
        Bind(calculateExpandedGroupLayout(
               Append(targetGroup.children, draggingItem), targetGroup, cols),
             LAMBDA expandedLayout :
          [newLayout EXCEPT ![groupIndex] =
             [targetGroup EXCEPT !.children = expandedLayout.children,
                                 !.w = expandedLayout.w,
                                 !.h = expandedLayout.h]])))

\* performGrouping that adds whatever is dragged to a target group, a
\* dragged group included.
performGroupingAnyOntoGroup(lay, draggedItemId, targetId, cols, dateNow) ==
  LET d == getLayoutItem(lay, draggedItemId)
      t == getLayoutItem(lay, targetId)
  IN IF d = 0 \/ t = 0 THEN lay
     ELSE IF ~lay[d].isGroup /\ ~lay[t].isGroup
     THEN createNewGroup(lay, lay[d], lay[t], cols, dateNow)
     ELSE IF lay[t].isGroup
     THEN addToExistingGroup(lay, lay[d], lay[t], cols)
     ELSE lay

performGrouping(lay, draggedItemId, targetId, cols, dateNow) ==
  LET d == getLayoutItem(lay, draggedItemId)
      t == getLayoutItem(lay, targetId)
  IN IF d = 0 \/ t = 0 THEN lay
     ELSE IF ~lay[d].isGroup /\ ~lay[t].isGroup
     THEN createNewGroup(lay, lay[d], lay[t], cols, dateNow)
     ELSE IF ~lay[d].isGroup /\ lay[t].isGroup
     THEN addToExistingGroup(lay, lay[d], lay[t], cols)
     ELSE lay

-----------------------------------------------------------------------------
(* The component: this.state and its handlers.  A handler's setState calls *)
(* take effect together when the handler returns.                          *)

NoTimer == 0

AbsentKey == "zz"

Keys(lay) == {lay[k].i : k \in 1..Len(lay)}

\* processGridItem: what GridItem lets the user drag or resize.
Draggable(l) ==
  IF l.isDraggable # "unset" THEN l.isDraggable = "true"
  ELSE ~l.static /\ props.isDraggable
Resizable(l) ==
  IF l.isResizable # "unset" THEN l.isResizable = "true"
  ELSE ~l.static /\ props.isResizable

\* A clearTimeout that cancels nothing.
clearTimeoutNothing(pending, id) == pending

\* clearTimeout(id)
clearTimeout(pending, id) == {t \in pending : t.id # id}

\* The id setTimeout returns: one that no pending or remembered timeout has.
NewTimerId ==
  CHOOSE id \in 1..(Cardinality(timers) + 2) :
    id # groupingTimer /\ \A t \in timers : t.id # id

Idle(op) == [op |-> op, merge |-> "none"]

onDragStart(i) ==
  /\ mounted /\ activeDrag = NoKey /\ resizing = NoKey
  /\ LET l == getLayoutItem(layout, i) IN
     IF l = 0
     THEN /\ last' = Idle("absent")
          /\ UNCHANGED <<props, layout, activeDrag, resizing, groupingTarget,
                         groupingTimer, isGroupDroppable, timers, mounted>>
     ELSE /\ Draggable(layout[l])
          /\ timers' = clearTimeout(timers, groupingTimer)
          /\ activeDrag' = i
          /\ groupingTarget' = NoKey
          /\ groupingTimer' = NoTimer
          /\ isGroupDroppable' = FALSE
          /\ last' = Idle("gesture")
          /\ UNCHANGED <<props, layout, resizing, mounted>>
  /\ UNCHANGED <<engine, fnVars>>

\* findItemAtMousePosition without the test that skips static items.
MouseTargetsWithStatics(draggedItemId) ==
  {NoKey} \cup {layout[k].i : k \in {n \in 1..Len(layout) :
                   layout[n].i # draggedItemId}}

\* findItemAtMousePosition: the pointer is over no item, or over an item
\* that is neither the dragged one nor static.
MouseTargets(draggedItemId) ==
  {NoKey} \cup {layout[k].i : k \in {n \in 1..Len(layout) :
                   layout[n].i # draggedItemId /\ ~layout[n].static}}

\* An onDrag that also moves the dragged item to the cell of the item under
\* the pointer and compacts, as a drag handler without grouping would.
onDragMoving(i, newTargetId) ==
  /\ mounted /\ activeDrag = i /\ resizing = NoKey
  /\ getLayoutItem(layout, i) # 0
  /\ newTargetId \in MouseTargets(i)
  /\ newTargetId # NoKey
  /\ LET l == getLayoutItem(layout, i)
         t == getLayoutItem(layout, newTargetId)
     IN layout' = compact(moveElement(layout, l, layout[t].x, layout[t].y,
                                      TRUE, props.preventCollision,
                                      props.compactType, props.cols,
                                      props.allowOverlap),
                          props.compactType, props.cols, FALSE)
  /\ UNCHANGED <<props, activeDrag, resizing, mounted, engine, fnVars, timers,
                 groupingTarget, groupingTimer, isGroupDroppable, last>>

\* onDrag that leaves the timeout and the droppable flag alone when the
\* pointer is over no item.
onDragKeepTimer(i, newTargetId) ==
  /\ mounted /\ activeDrag = i /\ resizing = NoKey
  /\ getLayoutItem(layout, i) # 0
  /\ newTargetId \in MouseTargets(i)
  /\ IF newTargetId # groupingTarget
     THEN IF newTargetId = NoKey
          THEN /\ groupingTarget' = NoKey
               /\ last' = Idle("left")
               /\ UNCHANGED <<timers, groupingTimer, isGroupDroppable>>
          ELSE /\ timers' = clearTimeout(timers, groupingTimer) \cup
                    {[id |-> NewTimerId, target |-> newTargetId,
                      remaining |-> GroupDelay]}
               /\ groupingTarget' = newTargetId
               /\ groupingTimer' = NewTimerId
               /\ isGroupDroppable' = FALSE
               /\ last' = Idle("gesture")
     ELSE UNCHANGED <<timers, groupingTarget, groupingTimer, isGroupDroppable,
                      last>>
  /\ UNCHANGED <<props, layout, activeDrag, resizing, mounted, engine, fnVars>>

\* onDrag with handleGroupingTarget; newTargetId is what the pointer is over.
onDrag(i, newTargetId) ==
  /\ mounted
  /\ i = AbsentKey \/ (activeDrag = i /\ resizing = NoKey)
  /\ IF getLayoutItem(layout, i) = 0
     THEN /\ newTargetId = NoKey
          /\ last' = Idle("absent")
          /\ UNCHANGED <<timers, groupingTarget, groupingTimer,
                         isGroupDroppable>>
     ELSE /\ newTargetId \in MouseTargets(i)
          /\ IF newTargetId # groupingTarget
             THEN IF newTargetId = NoKey
                  THEN /\ timers' = clearTimeout(timers, groupingTimer)
                       /\ groupingTarget' = NoKey
                       /\ groupingTimer' = NoTimer
                       /\ isGroupDroppable' = FALSE
                       /\ last' = Idle("left")
                  ELSE /\ timers' = clearTimeout(timers, groupingTimer) \cup
                            {[id |-> NewTimerId, target |-> newTargetId,
                              remaining |-> GroupDelay]}
                       /\ groupingTarget' = newTargetId
                       /\ groupingTimer' = NewTimerId
                       /\ isGroupDroppable' = FALSE
                       /\ last' = Idle("gesture")
             ELSE UNCHANGED <<timers, groupingTarget, groupingTimer,
                              isGroupDroppable, last>>
  /\ UNCHANGED <<props, layout, activeDrag, resizing, mounted, engine, fnVars>>

\* Time passes: every pending timeout comes TickMs closer.
Tick ==
  /\ \E t \in timers : t.remaining > 0
  /\ timers' = {[t EXCEPT !.remaining = Max(0, @ - TickMs)] : t \in timers}
  /\ UNCHANGED <<props, layout, activeDrag, resizing, groupingTarget,
                 groupingTimer, isGroupDroppable, mounted, last, engine, fnVars>>

\* A timeout whose callback runs before its delay has passed.
TimerFireEarly(t) ==
  /\ t \in timers
  /\ timers' = timers \ {t}
  /\ isGroupDroppable' =
       IF mounted /\ groupingTarget = t.target THEN TRUE ELSE isGroupDroppable
  /\ UNCHANGED <<props, layout, activeDrag, resizing, groupingTarget,
                 groupingTimer, mounted, last, engine, fnVars>>

\* The callback of a timeout that is due.
TimerFire(t) ==
  /\ t \in timers /\ t.remaining = 0
  /\ timers' = timers \ {t}
  /\ isGroupDroppable' =
       IF mounted /\ groupingTarget = t.target THEN TRUE ELSE isGroupDroppable
  /\ UNCHANGED <<props, layout, activeDrag, resizing, groupingTarget,
                 groupingTimer, mounted, last, engine, fnVars>>

\* Which branch of performGrouping a release in Droppable state takes.
MergeKind(lay, draggedItemId, targetId) ==
  LET d == getLayoutItem(lay, draggedItemId)
      t == getLayoutItem(lay, targetId)
  IN IF d = 0 \/ t = 0 THEN "missing"
     ELSE IF ~lay[d].isGroup /\ ~lay[t].isGroup THEN "new"
     ELSE IF ~lay[d].isGroup /\ lay[t].isGroup THEN "add"
     ELSE "unsupported"

\* DragStopLayout without the compaction of the placed layout.
DragStopLayoutUncompacted(lay, i, x, y, droppable, target, dateNow) ==
  IF droppable /\ target # NoKey
  THEN performGrouping(lay, i, target, props.cols, dateNow)
  ELSE moveElement(lay, getLayoutItem(lay, i), x, y, TRUE,
                   props.preventCollision, props.compactType, props.cols,
                   props.allowOverlap)

\* DragStopLayout that merges onto the target as soon as there is one,
\* droppable or not.
DragStopLayoutEager(lay, i, x, y, droppable, target, dateNow) ==
  Bind(IF target # NoKey
       THEN performGrouping(lay, i, target, props.cols, dateNow)
       ELSE moveElement(lay, getLayoutItem(lay, i), x, y, TRUE,
                        props.preventCollision, props.compactType,
                        props.cols, props.allowOverlap),
       LAMBDA placed :
    IF props.allowOverlap THEN placed
    ELSE compact(placed, props.compactType, props.cols, FALSE))

\* The layout onDragStop stores.
DragStopLayout(lay, i, x, y, droppable, target, dateNow) ==
  LET l == getLayoutItem(lay, i)
      grouped == droppable /\ target # NoKey
  IN
  Bind(IF grouped
       THEN performGrouping(lay, i, target, props.cols, dateNow)
       ELSE moveElement(lay, l, x, y, TRUE, props.preventCollision,
                        props.compactType, props.cols, props.allowOverlap),
       LAMBDA placed :
    IF props.allowOverlap THEN placed
    ELSE compact(placed, props.compactType, props.cols, FALSE))

\* The items of the array this.state.oldLayout refers to as onDragStop's
\* calls leave them.  Since onDragStart it is the array this.state.layout:
\* moveElement and compact assign to its item objects, and performGrouping
\* builds a new array of the same objects but for the merged ones.
DragStopOldLayout(lay, i, x, y, droppable, target, dateNow) ==
  IF droppable /\ target # NoKey
  THEN
    Bind(performGrouping(lay, i, target, props.cols, dateNow), LAMBDA placed :
      IF props.allowOverlap THEN lay
      ELSE
        Bind(compactCall(placed, props.compactType, props.cols, FALSE).input,
             LAMBDA after :
          [k \in 1..Len(lay) |->
             IF \/ MergeKind(lay, i, target) \in {"missing", "unsupported"}
                \/ lay[k].i # i /\ lay[k].i # target
             THEN after[getLayoutItem(placed, lay[k].i)]
             ELSE lay[k]]))
  ELSE
    Bind(moveElementInput(lay, getLayoutItem(lay, i), x, y, TRUE,
                          props.preventCollision, props.compactType,
                          props.cols, props.allowOverlap),
         LAMBDA moved :
      IF props.allowOverlap THEN moved
      ELSE compactCall(moved, props.compactType, props.cols, FALSE).input)

\* onLayoutMaybeChanged(newLayout, oldLayout) at the end of onDragStop
\* calls props.onLayoutChange.
DragStopNotifies(lay, i, x, y, droppable, target, dateNow) ==
  DragStopOldLayout(lay, i, x, y, droppable, target, dateNow)
    # DragStopLayout(lay, i, x, y, droppable, target, dateNow)

onDragStop(i, x, y, dateNow) ==
  /\ mounted
  /\ i = AbsentKey \/ (activeDrag = i /\ resizing = NoKey)
  /\ LET l == getLayoutItem(layout, i) IN
     IF l = 0
     THEN /\ last' = Idle("absent")
          /\ UNCHANGED <<props, layout, activeDrag, resizing, groupingTarget,
                         groupingTimer, isGroupDroppable, timers, mounted>>
     ELSE /\ x + layout[l].w <= Max(props.cols, layout[l].w)
          /\ layout' = DragStopLayout(layout, i, x, y, isGroupDroppable,
                                      groupingTarget, dateNow)
          /\ bottom(layout') <= MaxRows
          /\ timers' = clearTimeout(timers, groupingTimer)
          /\ activeDrag' = NoKey
          /\ groupingTarget' = NoKey
          /\ groupingTimer' = NoTimer
          /\ isGroupDroppable' = FALSE
          /\ last' = [op |-> "onDragStop",
                      merge |-> IF isGroupDroppable /\ groupingTarget # NoKey
                                THEN MergeKind(layout, i, groupingTarget)
                                ELSE "none"]
          /\ UNCHANGED <<props, resizing, mounted>>
  /\ UNCHANGED <<engine, fnVars>>

onResizeStart(i) ==
  /\ mounted /\ activeDrag = NoKey /\ resizing = NoKey
  /\ LET l == getLayoutItem(layout, i) IN
     IF l = 0 THEN UNCHANGED compVars
     ELSE /\ Resizable(layout[l])
          /\ resizing' = i
          /\ last' = Idle("gesture")
          /\ UNCHANGED <<props, layout, activeDrag, groupingTarget,
                         groupingTimer, isGroupDroppable, timers, mounted>>
  /\ UNCHANGED <<engine, fnVars>>

WestHandles == {"sw", "nw", "w"}
NorthHandles == {"ne", "n", "nw"}
Handles == {"s", "w", "e", "n", "sw", "nw", "se", "ne"}

\* The layout onResize stores for item index k resized to w by h.
ResizeLayout(lay, k, w0, h0, handle) ==
  LET l == lay[k]
      moves == handle \in WestHandles \cup NorthHandles
      x1 == IF handle \in WestHandles THEN l.x + (l.w - w0) ELSE l.x
      w1 == IF handle \in WestHandles /\ l.x # x1 /\ x1 < 0 THEN l.w ELSE w0
      x2 == IF x1 < 0 THEN 0 ELSE x1
      y1 == IF handle \in NorthHandles THEN l.y + (l.h - h0) ELSE l.y
      h1 == IF handle \in NorthHandles /\ l.y # y1 /\ y1 < 0 THEN l.h ELSE h0
      y2 == IF y1 < 0 THEN 0 ELSE y1
      probe == [l EXCEPT !.w = w1, !.h = h1, !.x = x2, !.y = y2]
      hasCollisions ==
        props.preventCollision /\ ~props.allowOverlap
        /\ \E n \in 1..Len(lay) : collides(lay[n], probe) /\ lay[n].i # l.i
      w == IF hasCollisions THEN l.w ELSE w1
      h == IF hasCollisions THEN l.h ELSE h1
      x == IF hasCollisions THEN l.x ELSE x2
      y == IF hasCollisions THEN l.y ELSE y2
      shouldMoveItem == moves /\ ~hasCollisions
      newLayout == [lay EXCEPT ![k] = [cloneLayoutItem(l) EXCEPT !.w = w, !.h = h]]
  IN
  Bind(IF shouldMoveItem
       THEN moveElement(newLayout, k, x, y, TRUE, props.preventCollision,
                        props.compactType, props.cols, props.allowOverlap)
       ELSE newLayout,
       LAMBDA finalLayout :
    IF props.allowOverlap THEN finalLayout
    ELSE compact(finalLayout, props.compactType, props.cols, FALSE))

\* onResize that resizes the first item when no item has the key i.
onResizeFirstItem(i, w, h, handle) ==
  /\ mounted
  /\ i = AbsentKey \/ resizing = i
  /\ LET k == IF getLayoutItem(layout, i) = 0 THEN 1
              ELSE getLayoutItem(layout, i)
     IN /\ handle \in WestHandles \/ layout[k].x + w <= props.cols
        /\ layout' = ResizeLayout(layout, k, w, h, handle)
        /\ bottom(layout') <= MaxRows
        /\ activeDrag' = i
        /\ last' = Idle("onResize")
        /\ UNCHANGED <<props, resizing, groupingTarget, groupingTimer,
                       isGroupDroppable, timers, mounted>>
  /\ UNCHANGED <<engine, fnVars>>

onResize(i, w, h, handle) ==
  /\ mounted
  /\ i = AbsentKey \/ resizing = i
  /\ LET k == getLayoutItem(layout, i) IN
     IF k = 0
     THEN /\ last' = Idle("absent")
          /\ UNCHANGED <<props, layout, activeDrag, resizing, groupingTarget,
                         groupingTimer, isGroupDroppable, timers, mounted>>
     ELSE /\ handle \in WestHandles \/ layout[k].x + w <= props.cols
          /\ layout' = ResizeLayout(layout, k, w, h, handle)
          /\ bottom(layout') <= MaxRows
          /\ activeDrag' = i
          /\ last' = Idle("onResize")
          /\ UNCHANGED <<props, resizing, groupingTarget, groupingTimer,
                         isGroupDroppable, timers, mounted>>
  /\ UNCHANGED <<engine, fnVars>>

onResizeStop(i) ==
  /\ mounted /\ resizing = i
  /\ layout' = IF props.allowOverlap THEN layout
               ELSE compact(layout, props.compactType, props.cols, FALSE)
  /\ bottom(layout') <= MaxRows
  /\ activeDrag' = NoKey
  /\ resizing' = NoKey
  /\ last' = Idle("onResizeStop")
  /\ UNCHANGED <<props, groupingTarget, groupingTimer, isGroupDroppable,
                 timers, mounted, engine, fnVars>>

\* An unmount that leaves the pending timeout alone.
componentWillUnmountLeak ==
  /\ mounted
  /\ mounted' = FALSE
  /\ UNCHANGED <<props, layout, activeDrag, resizing, groupingTarget,
                 groupingTimer, isGroupDroppable, timers, last, engine,
                 fnVars>>

componentWillUnmount ==
  /\ mounted
  /\ timers' = clearTimeout(timers, groupingTimer)
  /\ mounted' = FALSE
  /\ UNCHANGED <<props, layout, activeDrag, resizing, groupingTarget,
                 groupingTimer, isGroupDroppable, last, engine, fnVars>>

-----------------------------------------------------------------------------
(* The component's specification.                                          *)

CompactTypes == {"vertical", "horizontal", "none"}

\* The layout props the component is constructed with: cells of the first
\* row.  The container's isResizable is off and only item a sets its own flag;
\* item c cannot be dragged itself (it can be pushed and be a merge target).
PlainLayout ==
  <<[Item("a", 0, 0, 1, 1) EXCEPT !.isResizable = "true"],
    [Item("b", 1, 0, 1, 1) EXCEPT !.isResizable = "false"],
    [Item("c", 2, 0, 1, 1) EXCEPT !.isResizable = "false",
                                  !.isDraggable = "false"]>>

\* The third item static.
StaticLayout ==
  [PlainLayout EXCEPT ![3].static = TRUE, ![3].isDraggable = "unset"]

\* The third item under a key of the shape the grouping engine mints.
KeyedLayout ==
  [PlainLayout EXCEPT ![1].isResizable = "false", ![3].i = GroupId(1)]

\* Two items only.
PairLayout == SubSeq(PlainLayout, 1, 2)

\* Two groups, each of two children.
GroupsLayout ==
  <<[Item("g", 0, 0, 2, 1) EXCEPT
       !.isGroup = TRUE,
       !.children = <<Item("a", 0, 0, 1, 1), Item("b", 1, 0, 1, 1)>>],
    [Item("h", 2, 0, 1, 2) EXCEPT
       !.isGroup = TRUE,
       !.children = <<Item("c", 0, 0, 1, 1), Item("d", 0, 1, 1, 1)>>]>>

\* The layouts tried under the given props and sort engine.
PropsLayouts(p, eng) ==
  IF p.allowOverlap \/ p.preventCollision \/ eng = "reversed"
  THEN {PairLayout}
  ELSE {PlainLayout, StaticLayout} \cup
       (IF p.compactType = "vertical" THEN {KeyedLayout, GroupsLayout}
        ELSE {})

ChildrenOf(lay) == [n \in 1..Len(lay) |-> [key |-> lay[n].i, grid |-> NoGrid]]

Init ==
  /\ props \in [cols : {GridCols}, compactType : CompactTypes,
                allowOverlap : BOOLEAN, preventCollision : BOOLEAN,
                isDraggable : {TRUE}, isResizable : {FALSE}]
  /\ ~(props.allowOverlap /\ props.preventCollision)
  /\ engine \in {"stable", "reversed"}
  /\ props.compactType # "horizontal" => engine = "stable"
  /\ engine = "reversed" => ~props.allowOverlap /\ ~props.preventCollision
  /\ \E pl \in PropsLayouts(props, engine) :
       layout = synchronizeLayoutWithChildren(pl, ChildrenOf(pl), props.cols,
                                              props.compactType,
                                              props.allowOverlap)
  /\ activeDrag = NoKey
  /\ resizing = NoKey
  /\ groupingTarget = NoKey
  /\ groupingTimer = NoTimer
  /\ isGroupDroppable = FALSE
  /\ timers = {}
  /\ mounted = TRUE
  /\ last = Idle("constructor")
  /\ pc = "component"
  /\ fnIn = <<>>
  /\ fnOut = <<>>

Next ==
  \/ \E i \in Keys(layout) \cup {AbsentKey} : onDragStart(i)
  \/ \E i \in Keys(layout) \cup {AbsentKey}, t \in Keys(layout) \cup {NoKey} :
       onDrag(i, t)
  \/ Tick
  \/ \E t \in timers : TimerFire(t)
  \/ \E i \in Keys(layout), x \in 0..(GridCols - 1), y \in 0..MaxY,
        dateNow \in 1..MaxClock : onDragStop(i, x, y, dateNow)
  \/ onDragStop(AbsentKey, 0, 0, 1)
  \/ \E i \in Keys(layout) \cup {AbsentKey} : onResizeStart(i)
  \/ \E i \in Keys(layout), w \in 1..GridCols, h \in 1..MaxH,
        handle \in Handles : onResize(i, w, h, handle)
  \/ onResize(AbsentKey, 1, 1, "se")
  \/ \E i \in Keys(layout) : onResizeStop(i)
  \/ componentWillUnmount

Spec == Init /\ [][Next]_vars

-----------------------------------------------------------------------------
(* A drag gesture that an external drag-leave interrupts: the item whose   *)
(* gesture is followed is drawn in the initial state and kept in fnIn.     *)

\* this.props.droppingItem.i
droppingItem == "__dropping-elem__"

\* removeDroppingPlaceholder, called by onDragLeave while an item is dragged.
removeDroppingPlaceholder ==
  /\ mounted /\ activeDrag # NoKey /\ resizing = NoKey
  /\ layout' = compact(SelectSeq(layout, LAMBDA l : l.i # droppingItem),
                       props.compactType, props.cols, props.allowOverlap)
  /\ activeDrag' = NoKey
  /\ last' = Idle("removeDroppingPlaceholder")
  /\ UNCHANGED <<props, resizing, groupingTarget, groupingTimer,
                 isGroupDroppable, timers, mounted, engine, fnVars>>

\* onDragStop of the gesture's item once activeDrag has been cleared: the
\* handler returns at once.
onDragStopInactive(i) ==
  /\ mounted /\ activeDrag = NoKey
  /\ last.op = "removeDroppingPlaceholder"
  /\ last' = Idle("onDragStop")
  /\ UNCHANGED <<props, layout, activeDrag, resizing, groupingTarget,
                 groupingTimer, isGroupDroppable, timers, mounted, engine,
                 fnVars>>

InitLeave ==
  /\ props \in [cols : {GridCols}, compactType : CompactTypes,
                allowOverlap : {FALSE}, preventCollision : {FALSE},
                isDraggable : {TRUE}, isResizable : {FALSE}]
  /\ engine = "stable"
  /\ \E pl \in {PlainLayout, StaticLayout} :
       layout = synchronizeLayoutWithChildren(pl, ChildrenOf(pl), props.cols,
                                              props.compactType,
                                              props.allowOverlap)
  /\ activeDrag = NoKey
  /\ resizing = NoKey
  /\ groupingTarget = NoKey
  /\ groupingTimer = NoTimer
  /\ isGroupDroppable = FALSE
  /\ timers = {}
  /\ mounted = TRUE
  /\ last = Idle("constructor")
  /\ pc = "component"
  /\ fnIn \in {<<"a">>, <<"b">>}
  /\ fnOut = <<>>

NextLeave ==
  \/ onDragStart(fnIn[1])
  \/ \E t \in Keys(layout) \cup {NoKey} : onDrag(fnIn[1], t)
  \/ Tick
  \/ \E t \in timers : TimerFire(t)
  \/ removeDroppingPlaceholder
  \/ \E x \in 0..(GridCols - 1), y \in 0..MaxY, dateNow \in 1..MaxClock :
       onDragStop(fnIn[1], x, y, dateNow)
  \/ onDragStopInactive(fnIn[1])

SpecLeave == InitLeave /\ [][NextLeave]_vars

-----------------------------------------------------------------------------
(* The library functions called on their own: the call's arguments are     *)
(* drawn in the initial state and the function is applied by an action.    *)

\* The component's variables while a library function is exercised alone.
FnFrame ==
  /\ props = [cols |-> GridCols, compactType |-> "none",
              allowOverlap |-> FALSE, preventCollision |-> FALSE,
              isDraggable |-> TRUE, isResizable |-> FALSE]
  /\ layout = <<>>
  /\ activeDrag = NoKey
  /\ resizing = NoKey
  /\ groupingTarget = NoKey
  /\ groupingTimer = NoTimer
  /\ isGroupDroppable = FALSE
  /\ timers = {}
  /\ mounted = FALSE
  /\ last = Idle("none")

\* The engine matters to the column-major sort only.
FnEngine(compactType) ==
  /\ engine \in {"stable", "reversed"}
  /\ compactType # "horizontal" => engine = "stable"

\* Rectangles with their origin in the grid, at most maxW wide and maxH
\* high, reaching at most `over` columns beyond the last one.
Shapes(maxW, maxH, over) ==
  {s \in [x : 0..(GridCols - 1), y : 0..MaxY, w : 1..maxW, h : 1..maxH] :
     s.x + s.w <= GridCols + over}

FnItem(key, s, static) ==
  [Item(key, s.x, s.y, s.w, s.h) EXCEPT !.static = static]

\* Argument layouts: two items of any shape, or three single cells; the last
\* item static or not.  Items may overlap.
FnLayouts(over) ==
  {<<FnItem("a", s1, FALSE), FnItem("b", s2, st)>> :
     s1 \in Shapes(2, MaxH, over), s2 \in Shapes(2, MaxH, over),
     st \in BOOLEAN}
  \cup
  {<<FnItem("a", s1, FALSE), FnItem("b", s2, FALSE), FnItem("c", s3, st)>> :
     s1 \in Shapes(1, 1, 0), s2 \in Shapes(1, 1, 0), s3 \in Shapes(1, 1, 0),
     st \in BOOLEAN}

\* No two items of lay collide.
CollisionFree(lay) ==
  \A j, k \in 1..Len(lay) : ~collides(lay[j], lay[k])

\* No two non-static items of lay collide.
NoMovableCollision(lay) ==
  \A j, k \in 1..Len(lay) :
    (~lay[j].static /\ ~lay[k].static) => ~collides(lay[j], lay[k])

\* Scenario 1 of the test suite: widgets 11 and 8 in a grid of 12 columns.
Scenario1 ==
  [layout |-> <<Item("11", 6, 0, 2, 3), Item("8", 8, 0, 2, 2)>>,
   l |-> 1, x |-> 8, y |-> 0, compactType |-> "none",
   preventCollision |-> FALSE, cols |-> 12]

\* moveElement(layout, layout[l], x, y, true, preventCollision, compactType,
\* cols, false): the first item is moved to a cell where it fits the grid.
MoveInputs ==
  {in \in [layout : FnLayouts(0), l : {1}, x : 0..(GridCols - 1),
           y : 0..MaxY, compactType : CompactTypes,
           preventCollision : BOOLEAN, cols : {GridCols}] :
     /\ in.x + in.layout[1].w <= GridCols
     /\ in.preventCollision => Len(in.layout) = 2}
  \cup {Scenario1}

InitMove ==
  /\ FnFrame
  /\ fnIn \in MoveInputs
  /\ FnEngine(fnIn.compactType)
  /\ pc = "call"
  /\ fnOut = <<>>

CallMoveElement ==
  /\ pc = "call"
  /\ fnOut' = moveElement(fnIn.layout, fnIn.l, fnIn.x, fnIn.y, TRUE,
                          fnIn.preventCollision, fnIn.compactType, fnIn.cols,
                          FALSE)
  /\ pc' = "returned"
  /\ UNCHANGED <<compVars, engine, fnIn>>

NextMove == CallMoveElement

SpecMove == InitMove /\ [][NextMove]_vars

\* moveElement and correctBounds with the array they return told apart from
\* the array they were given: fnOut.returned holds the items of the returned
\* array, fnOut.input the items of the argument after the call, and
\* fnOut.sameArray whether the two are one array.

\* Two items: the first of any height, static or not and with any
\* isDraggable when static; they may overlap.
ReturnLayouts ==
  {<<[FnItem("a", s1, st) EXCEPT !.isDraggable = d], FnItem("b", s2, FALSE)>> :
     s1 \in Shapes(1, MaxH, 0), s2 \in Shapes(2, 1, 0), st \in BOOLEAN,
     d \in {"unset", "true", "false"}}

\* Two items that may begin left of column 0 and be wider than the grid.
UncorrectedLayouts ==
  {<<FnItem("a", [x |-> x1, y |-> 0, w |-> w1, h |-> 1], st1),
     FnItem("b", [x |-> x2, y |-> y2, w |-> w2, h |-> 1], st2)>> :
     x1 \in (0 - 1)..GridCols, w1 \in 1..(GridCols + 1),
     x2 \in (0 - 1)..GridCols, w2 \in 1..(GridCols + 1), y2 \in 0..MaxY,
     st1 \in BOOLEAN, st2 \in BOOLEAN}

ReturnInputs ==
  {in \in [fn : {"moveElement"}, layout : ReturnLayouts, l : {1},
           x : 0..(GridCols - 1), y : 0..MaxY, compactType : CompactTypes,
           preventCollision : BOOLEAN, allowOverlap : BOOLEAN,
           cols : {GridCols}] :
     in.layout[1].static \/ in.layout[1].isDraggable = "unset"}
  \cup [fn : {"correctBounds"}, layout : UncorrectedLayouts, l : {1},
        x : {0}, y : {0}, compactType : {"none"}, preventCollision : {FALSE},
        allowOverlap : {FALSE}, cols : {GridCols}]

InitReturn ==
  /\ FnFrame
  /\ fnIn \in ReturnInputs
  /\ FnEngine(fnIn.compactType)
  /\ pc = "call"
  /\ fnOut = <<>>

CallMoveElementReturn ==
  /\ pc = "call" /\ fnIn.fn = "moveElement"
  /\ fnOut' =
       [returned |-> moveElement(fnIn.layout, fnIn.l, fnIn.x, fnIn.y, TRUE,
                                 fnIn.preventCollision, fnIn.compactType,
                                 fnIn.cols, fnIn.allowOverlap),
        input |-> moveElementInput(fnIn.layout, fnIn.l, fnIn.x, fnIn.y, TRUE,
                                   fnIn.preventCollision, fnIn.compactType,
                                   fnIn.cols, fnIn.allowOverlap),
        sameArray |-> moveElementReturnsInput(fnIn.layout, fnIn.l, fnIn.x,
                                              fnIn.y, fnIn.allowOverlap)]
  /\ pc' = "returned"
  /\ UNCHANGED <<compVars, engine, fnIn>>

\* correctBounds assigns to the items of `layout` and returns `layout`.
CallCorrectBoundsReturn ==
  /\ pc = "call" /\ fnIn.fn = "correctBounds"
  /\ fnOut' = Bind(correctBounds(fnIn.layout, fnIn.cols), LAMBDA corrected :
                  [returned |-> corrected, input |-> corrected,
                   sameArray |-> TRUE])
  /\ pc' = "returned"
  /\ UNCHANGED <<compVars, engine, fnIn>>

NextReturn == CallMoveElementReturn \/ CallCorrectBoundsReturn

SpecReturn == InitReturn /\ [][NextReturn]_vars

\* moveElement run call by call.  heap is the array the call was given,
\* whose items the calls assign to; a frame of the stack is a moveElement
\* call inside its for loop: its item l, the collisions found before the
\* loop, the index n of the next one and its isUserAction.

\* moveElement up to its for loop: the array as left, and the frame of the
\* loop unless the call returns before it.
moveElementEnter(heap, l, x, y, isUserAction, preventCollision, compactType, allowOverlap) ==
  IF heap[l].static /\ heap[l].isDraggable # "true"
  THEN [heap |-> heap, frames |-> <<>>]
  ELSE IF heap[l].y = y /\ heap[l].x = x THEN [heap |-> heap, frames |-> <<>>]
  ELSE
    LET oldX == heap[l].x
        oldY == heap[l].y
        placed == [heap EXCEPT ![l].x = IF x # Undefined THEN x ELSE @,
                               ![l].y = IF y # Undefined THEN y ELSE @,
                               ![l].moved = TRUE]
        movingUp ==
          IF compactType = "vertical" /\ y # Undefined THEN oldY >= y
          ELSE IF compactType = "horizontal" /\ x # Undefined THEN oldX >= x
          ELSE FALSE
    IN
    Bind(sortLayoutItems(placed, compactType), LAMBDA sorted :
      Bind(getAllCollisions(placed,
                            IF movingUp THEN Reverse(sorted) ELSE sorted,
                            placed[l]),
           LAMBDA collisions :
        IF Len(collisions) > 0 /\ allowOverlap
        THEN [heap |-> placed, frames |-> <<>>]
        ELSE IF Len(collisions) > 0 /\ preventCollision
        THEN [heap |-> [placed EXCEPT ![l].x = oldX, ![l].y = oldY,
                                      ![l].moved = FALSE],
              frames |-> <<>>]
        ELSE [heap |-> placed,
              frames |-> <<[l |-> l, collisions |-> collisions, n |-> 1,
                            isUserAction |-> isUserAction]>>]))

\* moveElementAwayFromCollision taking every call for the user's.
moveElementAwayEnterAsUser(heap, collidesWith, itemToMove, isUserAction, compactType) ==
  LET compactH == compactType = "horizontal"
      compactV == compactType = "vertical"
      fakeItem ==
        Item("-1",
             IF compactH
             THEN Max(heap[collidesWith].x - heap[itemToMove].w, 0)
             ELSE heap[itemToMove].x,
             IF compactV
             THEN Max(heap[collidesWith].y - heap[itemToMove].h, 0)
             ELSE heap[itemToMove].y,
             heap[itemToMove].w, heap[itemToMove].h)
  IN
  Bind(IF TRUE THEN getFirstCollision(heap, fakeItem) ELSE 0,
       LAMBDA firstCollision :
    LET collisionNorth ==
          firstCollision # 0
          /\ heap[firstCollision].y + heap[firstCollision].h
               > heap[collidesWith].y
        collisionWest ==
          firstCollision # 0
          /\ heap[collidesWith].x + heap[collidesWith].w
               > heap[firstCollision].x
        preventCollision == heap[collidesWith].static
    IN
    IF TRUE /\ firstCollision = 0
    THEN moveElementEnter(heap, itemToMove,
                          IF compactH THEN fakeItem.x ELSE Undefined,
                          IF compactV THEN fakeItem.y ELSE Undefined,
                          FALSE, preventCollision, compactType, FALSE)
    ELSE IF TRUE /\ collisionNorth /\ compactV
    THEN moveElementEnter(heap, itemToMove, Undefined,
                          heap[collidesWith].y + 1,
                          FALSE, preventCollision, compactType, FALSE)
    ELSE IF TRUE /\ collisionNorth /\ compactType = "none"
    THEN [heap |-> [heap EXCEPT
                      ![collidesWith].y = heap[itemToMove].y,
                      ![itemToMove].y = heap[itemToMove].y + heap[itemToMove].h],
          frames |-> <<>>]
    ELSE IF TRUE /\ collisionWest /\ compactH
    THEN moveElementEnter(heap, collidesWith, heap[itemToMove].x, Undefined,
                          FALSE, preventCollision, compactType, FALSE)
    ELSE IF ~compactH /\ ~compactV THEN [heap |-> heap, frames |-> <<>>]
    ELSE moveElementEnter(heap, itemToMove,
                          IF compactH THEN heap[itemToMove].x + 1 ELSE Undefined,
                          IF compactV THEN heap[itemToMove].y + 1 ELSE Undefined,
                          FALSE, preventCollision, compactType, FALSE))

\* moveElementAwayFromCollision up to its call of moveElement: the array as
\* left, and the frame that call opens, if any.
moveElementAwayEnter(heap, collidesWith, itemToMove, isUserAction, compactType) ==
  LET compactH == compactType = "horizontal"
      compactV == compactType = "vertical"
      fakeItem ==
        Item("-1",
             IF compactH
             THEN Max(heap[collidesWith].x - heap[itemToMove].w, 0)
             ELSE heap[itemToMove].x,
             IF compactV
             THEN Max(heap[collidesWith].y - heap[itemToMove].h, 0)
             ELSE heap[itemToMove].y,
             heap[itemToMove].w, heap[itemToMove].h)
  IN
  Bind(IF isUserAction THEN getFirstCollision(heap, fakeItem) ELSE 0,
       LAMBDA firstCollision :
    LET collisionNorth ==
          firstCollision # 0
          /\ heap[firstCollision].y + heap[firstCollision].h
               > heap[collidesWith].y
        collisionWest ==
          firstCollision # 0
          /\ heap[collidesWith].x + heap[collidesWith].w
               > heap[firstCollision].x
        preventCollision == heap[collidesWith].static
    IN
    IF isUserAction /\ firstCollision = 0
    THEN moveElementEnter(heap, itemToMove,
                          IF compactH THEN fakeItem.x ELSE Undefined,
                          IF compactV THEN fakeItem.y ELSE Undefined,
                          FALSE, preventCollision, compactType, FALSE)
    ELSE IF isUserAction /\ collisionNorth /\ compactV
    THEN moveElementEnter(heap, itemToMove, Undefined,
                          heap[collidesWith].y + 1,
                          FALSE, preventCollision, compactType, FALSE)
    ELSE IF isUserAction /\ collisionNorth /\ compactType = "none"
    THEN [heap |-> [heap EXCEPT
                      ![collidesWith].y = heap[itemToMove].y,
                      ![itemToMove].y = heap[itemToMove].y + heap[itemToMove].h],
          frames |-> <<>>]
    ELSE IF isUserAction /\ collisionWest /\ compactH
    THEN moveElementEnter(heap, collidesWith, heap[itemToMove].x, Undefined,
                          FALSE, preventCollision, compactType, FALSE)
    ELSE IF ~compactH /\ ~compactV THEN [heap |-> heap, frames |-> <<>>]
    ELSE moveElementEnter(heap, itemToMove,
                          IF compactH THEN heap[itemToMove].x + 1 ELSE Undefined,
                          IF compactV THEN heap[itemToMove].y + 1 ELSE Undefined,
                          FALSE, preventCollision, compactType, FALSE))

\* The frame with its loop index advanced.
NextCollision(frame) == [frame EXCEPT !.n = @ + 1]

\* One iteration of the for loop of the innermost call, or its return.
moveElementStep(heap, stack, compactType) ==
  LET frame == stack[Len(stack)]
      below == SubSeq(stack, 1, Len(stack) - 1)
  IN
  IF frame.n > Len(frame.collisions) THEN [heap |-> heap, stack |-> below]
  ELSE
    LET collision == frame.collisions[frame.n] IN
    IF heap[collision].moved
    THEN [heap |-> heap, stack |-> Append(below, NextCollision(frame))]
    ELSE
      Bind(IF heap[collision].static
           THEN moveElementAwayEnter(heap, collision, frame.l,
                                     frame.isUserAction, compactType)
           ELSE moveElementAwayEnter(heap, frame.l, collision,
                                     frame.isUserAction, compactType),
           LAMBDA r :
        [heap |-> r.heap,
         stack |-> Append(below, NextCollision(frame)) \o r.frames])

\* compact run iteration by iteration.  The state of the call is the index
\* n into sorted, compareWith, out, the sorted item objects `full`, and,
\* inside compactItem, the clone l that is being placed (phase "while").

\* compact up to its for loop.
compactEnter(lay, compactType) ==
  Bind(sortLayoutItems(lay, compactType), LAMBDA sorted :
    [phase |-> "for", n |-> 1, sorted |-> sorted,
     full |-> [n \in 1..Len(lay) |-> lay[sorted[n]]],
     compareWith |-> getStatics(lay), out |-> lay, l |-> <<>>])

\* The for loop of compact reaches item n: a static item is stored, another
\* one enters compactItem and is slid up or left as far as it goes.
compactForStep(c, compactType) ==
  LET l == cloneLayoutItem(c.full[c.n]) IN
  IF l.static
  THEN [c EXCEPT !.out[c.sorted[c.n]] = [l EXCEPT !.moved = FALSE],
                 !.n = @ + 1]
  ELSE [c EXCEPT !.phase = "while",
                 !.l = <<IF compactType = "vertical"
                         THEN slideUp(c.compareWith,
                                      [l EXCEPT !.y = Min(bottom(c.compareWith),
                                                          l.y)])
                         ELSE IF compactType = "horizontal"
                         THEN slideLeft(c.compareWith, l)
                         ELSE l>>]

\* One test of the while loop of compactItem: an iteration of it, or the
\* rest of compactItem and of the for loop's body.
compactWhileStep(c, compactType, cols, allowOverlap) ==
  LET l == c.l[1]
      compactH == compactType = "horizontal"
  IN
  Bind(getFirstCollision(c.compareWith, l), LAMBDA hit :
    IF hit = 0 \/ (compactType = "none" /\ allowOverlap)
    THEN Bind([l EXCEPT !.y = Max(l.y, 0), !.x = Max(l.x, 0),
                        !.moved = FALSE],
              LAMBDA done :
           [c EXCEPT !.phase = "for", !.l = <<>>, !.n = @ + 1,
                     !.compareWith = Append(@, done),
                     !.out[c.sorted[c.n]] = done])
    ELSE
      Bind(resolveCompactionCollision(
             c.full, l, 0,
             IF compactH THEN c.compareWith[hit].x + c.compareWith[hit].w
             ELSE c.compareWith[hit].y + c.compareWith[hit].h,
             IF compactH THEN "x" ELSE "y"),
           LAMBDA r :
        [c EXCEPT !.full = r.full,
                  !.l = <<IF compactH /\ r.item.x + r.item.w > cols
                          THEN slideLeft(c.compareWith,
                                         [r.item EXCEPT !.x = cols - r.item.w,
                                                        !.y = r.item.y + 1])
                          ELSE r.item>>]))

\* correctBounds run iteration by iteration: the array, collidesWith (as
\* indices), the index k of the for loop and whether it is inside the while
\* loop of a static item.
correctBoundsEnter(lay) ==
  [phase |-> "for", k |-> 1, heap |-> lay, collidesWith |-> StaticIndices(lay)]

\* The for loop of correctBounds reaches item k.
correctBoundsForStep(b, cols) ==
  LET k == b.k
      right == IF b.heap[k].x + b.heap[k].w > cols
               THEN [b.heap EXCEPT ![k].x = cols - b.heap[k].w] ELSE b.heap
      left == IF right[k].x < 0
              THEN [right EXCEPT ![k].x = 0, ![k].w = cols] ELSE right
  IN IF ~left[k].static
     THEN [b EXCEPT !.heap = left, !.collidesWith = Append(@, k), !.k = @ + 1]
     ELSE [b EXCEPT !.heap = left, !.phase = "while"]

\* The while loop of correctBounds with a body that leaves l.y alone.
correctBoundsWhileStepInPlace(b) ==
  IF \E n \in 1..Len(b.collidesWith) :
       collides(b.heap[b.collidesWith[n]], b.heap[b.k])
  THEN b
  ELSE [b EXCEPT !.phase = "for", !.k = @ + 1]

\* One test of while (getFirstCollision(collidesWith, l)) l.y++
correctBoundsWhileStep(b) ==
  IF \E n \in 1..Len(b.collidesWith) :
       collides(b.heap[b.collidesWith[n]], b.heap[b.k])
  THEN [b EXCEPT !.heap[b.k].y = @ + 1]
  ELSE [b EXCEPT !.phase = "for", !.k = @ + 1]

\* The layouts the three functions are run on step by step: two items, the
\* first possibly wider than the grid, or three single cells, or a cell, an
\* item two columns wide and a cell; items may be static and may collide.
StepLayouts ==
  {<<FnItem("a", [x |-> x1, y |-> 0, w |-> w1, h |-> 1], st1),
     FnItem("b", s2, st2)>> :
     x1 \in 0..(GridCols - 1), w1 \in {1, GridCols + 1},
     s2 \in Shapes(1, 1, 0), st1 \in BOOLEAN, st2 \in BOOLEAN}
  \cup
  {<<FnItem("a", [s1 EXCEPT !.y = 0], FALSE),
     FnItem("b", [s2 EXCEPT !.y = 0], FALSE), FnItem("c", s3, st)>> :
     s1 \in Shapes(1, 1, 0), s2 \in Shapes(1, 1, 0), s3 \in Shapes(1, 1, 0),
     st \in BOOLEAN}
  \cup
  {<<FnItem("a", [s1 EXCEPT !.y = 0], FALSE),
     FnItem("b", [s2 EXCEPT !.w = 2], FALSE), FnItem("c", s3, FALSE)>> :
     s1 \in Shapes(1, 1, 0), s2 \in Shapes(1, 1, 0 - 1),
     s3 \in Shapes(1, 1, 0)}

StepInputs ==
  {in \in [fn : {"moveElement"}, layout : StepLayouts, l : {1},
           x : 0..(GridCols - 1), y : 0..MaxY, compactType : CompactTypes,
           preventCollision : BOOLEAN, cols : {GridCols}] :
     in.preventCollision => Len(in.layout) = 2}
  \cup [fn : {"compact", "correctBounds"}, layout : StepLayouts, l : {1},
        x : {0}, y : {0}, compactType : CompactTypes,
        preventCollision : {FALSE}, cols : {GridCols}]

InitSteps ==
  /\ FnFrame
  /\ fnIn \in StepInputs
  /\ FnEngine(fnIn.compactType)
  /\ pc = "call"
  /\ fnOut = <<>>

MoveEnter ==
  /\ pc = "call" /\ fnIn.fn = "moveElement"
  /\ fnOut' = Bind(moveElementEnter(fnIn.layout, fnIn.l, fnIn.x, fnIn.y, TRUE,
                                    fnIn.preventCollision, fnIn.compactType,
                                    FALSE),
                   LAMBDA r : [heap |-> r.heap, stack |-> r.frames])
  /\ pc' = "running"
  /\ UNCHANGED <<compVars, engine, fnIn>>

MoveStep ==
  /\ pc = "running" /\ fnIn.fn = "moveElement"
  /\ fnOut.stack # <<>>
  /\ fnOut' = moveElementStep(fnOut.heap, fnOut.stack, fnIn.compactType)
  /\ UNCHANGED <<pc, compVars, engine, fnIn>>

MoveReturn ==
  /\ pc = "running" /\ fnIn.fn = "moveElement"
  /\ fnOut.stack = <<>>
  /\ pc' = "returned"
  /\ UNCHANGED <<fnOut, compVars, engine, fnIn>>

CompactEnter ==
  /\ pc = "call" /\ fnIn.fn = "compact"
  /\ fnOut' = compactEnter(fnIn.layout, fnIn.compactType)
  /\ pc' = "running"
  /\ UNCHANGED <<compVars, engine, fnIn>>

CompactStep ==
  /\ pc = "running" /\ fnIn.fn = "compact"
  /\ fnOut.n <= Len(fnOut.sorted)
  /\ fnOut' = IF fnOut.phase = "for"
              THEN compactForStep(fnOut, fnIn.compactType)
              ELSE compactWhileStep(fnOut, fnIn.compactType, fnIn.cols, FALSE)
  /\ UNCHANGED <<pc, compVars, engine, fnIn>>

CompactReturn ==
  /\ pc = "running" /\ fnIn.fn = "compact"
  /\ fnOut.n > Len(fnOut.sorted)
  /\ pc' = "returned"
  /\ UNCHANGED <<fnOut, compVars, engine, fnIn>>

BoundsEnter ==
  /\ pc = "call" /\ fnIn.fn = "correctBounds"
  /\ fnOut' = correctBoundsEnter(fnIn.layout)
  /\ pc' = "running"
  /\ UNCHANGED <<compVars, engine, fnIn>>

BoundsStep ==
  /\ pc = "running" /\ fnIn.fn = "correctBounds"
  /\ fnOut.k <= Len(fnOut.heap)
  /\ fnOut' = IF fnOut.phase = "for"
              THEN correctBoundsForStep(fnOut, fnIn.cols)
              ELSE correctBoundsWhileStep(fnOut)
  /\ UNCHANGED <<pc, compVars, engine, fnIn>>

BoundsReturn ==
  /\ pc = "running" /\ fnIn.fn = "correctBounds"
  /\ fnOut.k > Len(fnOut.heap)
  /\ pc' = "returned"
  /\ UNCHANGED <<fnOut, compVars, engine, fnIn>>

NextSteps ==
  \/ MoveEnter \/ MoveStep \/ MoveReturn
  \/ CompactEnter \/ CompactStep \/ CompactReturn
  \/ BoundsEnter \/ BoundsStep \/ BoundsReturn

\* JavaScript runs a call to its end: a step that can be taken is taken.
SpecSteps == InitSteps /\ [][NextSteps]_vars /\ WF_vars(NextSteps)

\* compact(layout, compactType, cols) on a layout whose items may overlap
\* and may reach one column beyond the grid.
CompactInputs ==
  [layout : FnLayouts(1), compactType : CompactTypes, cols : {GridCols}]

InitCompact ==
  /\ FnFrame
  /\ fnIn \in CompactInputs
  /\ FnEngine(fnIn.compactType)
  /\ pc = "call"
  /\ fnOut = <<>>

\* fnOut is the sequence of the layouts returned so far.
CallCompact ==
  /\ pc = "call"
  /\ fnOut' = <<compact(fnIn.layout, fnIn.compactType, fnIn.cols, FALSE)>>
  /\ pc' = "returned"
  /\ UNCHANGED <<compVars, engine, fnIn>>

\* The returned layout is compacted once more.
CallCompactAgain ==
  /\ pc = "returned"
  /\ fnOut' = Append(fnOut, compact(fnOut[1], fnIn.compactType, fnIn.cols,
                                    FALSE))
  /\ pc' = "again"
  /\ UNCHANGED <<compVars, engine, fnIn>>

NextCompact == CallCompact \/ CallCompactAgain

SpecCompact == InitCompact /\ [][NextCompact]_vars

\* compact on layouts whose items carry any moved flags, with allowOverlap
\* on or off.
FlaggedLayouts ==
  {[k \in 1..Len(lay) |-> [lay[k] EXCEPT !.moved = k \in flagged]] :
     lay \in StepLayouts, flagged \in SUBSET (1..3)}

FlaggedInputs ==
  [layout : FlaggedLayouts, compactType : CompactTypes, cols : {GridCols},
   allowOverlap : BOOLEAN]

InitFlagged ==
  /\ FnFrame
  /\ fnIn \in FlaggedInputs
  /\ FnEngine(fnIn.compactType)
  /\ pc = "call"
  /\ fnOut = <<>>

CallCompactFlagged ==
  /\ pc = "call"
  /\ fnOut' = compact(fnIn.layout, fnIn.compactType, fnIn.cols,
                      fnIn.allowOverlap)
  /\ pc' = "returned"
  /\ UNCHANGED <<compVars, engine, fnIn>>

NextFlagged == CallCompactFlagged

SpecFlagged == InitFlagged /\ [][NextFlagged]_vars

\* createOptimalGroupLayout(draggingItem, targetItem, cols)
GroupInputs ==
  {in \in [draggingItem : {FnItem("a", s, FALSE) : s \in Shapes(GridCols, MaxH, 0)},
           targetItem : {FnItem("b", s, FALSE) : s \in Shapes(GridCols, MaxH, 0)},
           cols : {GridCols}] :
     in.draggingItem.y = 0}

InitGroup ==
  /\ FnFrame
  /\ fnIn \in GroupInputs
  /\ engine = "stable"
  /\ pc = "call"
  /\ fnOut = <<>>

CallCreateOptimalGroupLayout ==
  /\ pc = "call"
  /\ fnOut' = createOptimalGroupLayout(fnIn.draggingItem, fnIn.targetItem,
                                       fnIn.cols)
  /\ pc' = "returned"
  /\ UNCHANGED <<compVars, engine, fnIn>>

NextGroup == CallCreateOptimalGroupLayout

SpecGroup == InitGroup /\ [][NextGroup]_vars

\* addToExistingGroup(layout, draggingItem, targetGroup, cols): the layout
\* holds a group that createNewGroup made of two plain items, the first up
\* to MaxH + 1 rows high, followed by the plain items "a" and "b".
ExpandInputs ==
  {[layout |-> createNewGroup(<<FnItem("c", [s1 EXCEPT !.w = w1], FALSE),
                                FnItem("d", s2, FALSE)>>,
                              FnItem("c", [s1 EXCEPT !.w = w1], FALSE),
                              FnItem("d", s2, FALSE), GridCols, 1)
                \o <<FnItem("a", sa, FALSE), Item("b", 0, 0, 1, 1)>>,
    targetGroup |-> GroupId(1), cols |-> GridCols] :
     s1 \in Shapes(1, MaxH + 1, 0), w1 \in 1..2, s2 \in Shapes(2, MaxH, 0),
     sa \in {s \in Shapes(2, MaxH, 0) : s.x = 0}}

InitExpand ==
  /\ FnFrame
  /\ fnIn \in ExpandInputs
  /\ engine = "stable"
  /\ pc = "call"
  /\ fnOut = <<>>

\* The group of lay that the calls merge onto.
TargetGroup(lay) == lay[getLayoutItem(lay, fnIn.targetGroup)]

\* Item "a" is merged onto the group.  fnOut is the sequence of the
\* layouts returned so far.
CallAddToExistingGroup ==
  /\ pc = "call"
  /\ fnOut' = <<addToExistingGroup(fnIn.layout,
                                   fnIn.layout[getLayoutItem(fnIn.layout, "a")],
                                   TargetGroup(fnIn.layout), fnIn.cols)>>
  /\ pc' = "returned"
  /\ UNCHANGED <<compVars, engine, fnIn>>

\* Item "b" is merged onto the group of the returned layout.
CallAddToExistingGroupAgain ==
  /\ pc = "returned"
  /\ fnOut' = Append(fnOut,
                     addToExistingGroup(fnOut[1],
                                        fnOut[1][getLayoutItem(fnOut[1], "b")],
                                        TargetGroup(fnOut[1]), fnIn.cols))
  /\ pc' = "again"
  /\ UNCHANGED <<compVars, engine, fnIn>>

NextExpand == CallAddToExistingGroup \/ CallAddToExistingGroupAgain

SpecExpand == InitExpand /\ [][NextExpand]_vars

\* synchronizeLayoutWithChildren(initialLayout, children, cols, compactType,
\* allowOverlap).  initialLayout is a layout as props supply it: items "a"
\* and "b", static or not, overlapping or not, "a" reaching at most one
\* column beyond the grid.
SyncLayouts ==
  {<<FnItem("a", s1, st1), FnItem("b", s2, st2)>> :
     s1 \in Shapes(2, MaxH, 1), s2 \in Shapes(1, 1, 0),
     st1 \in BOOLEAN, st2 \in BOOLEAN}

\* The data-grid props a child may carry.
SyncGrids ==
  {NoGrid, [x |-> 0, y |-> 0, w |-> 1, h |-> 1],
           [x |-> GridCols - 1, y |-> MaxY, w |-> 2, h |-> MaxH]}

\* The children: any of "a", "b" and the new key "c", each with or without
\* data-grid, "c" coming first or last.
SyncChildren ==
  {SelectSeq(IF cFirst
             THEN <<[key |-> "c", grid |-> gc], [key |-> "a", grid |-> ga],
                    [key |-> "b", grid |-> gb]>>
             ELSE <<[key |-> "a", grid |-> ga], [key |-> "b", grid |-> gb],
                    [key |-> "c", grid |-> gc]>>,
             LAMBDA child : child.key \in keys) :
     keys \in (SUBSET {"a", "b", "c"}) \ {{}},
     ga \in {NoGrid}, gb \in SyncGrids,
     gc \in {NoGrid, [x |-> 0, y |-> 0, w |-> 1, h |-> 1]},
     cFirst \in BOOLEAN}

SyncInputs ==
  [initialLayout : SyncLayouts, children : SyncChildren, cols : {GridCols},
   compactType : CompactTypes, allowOverlap : BOOLEAN]

InitSync ==
  /\ FnFrame
  /\ fnIn \in SyncInputs
  /\ FnEngine(fnIn.compactType)
  /\ pc = "call"
  /\ fnOut = <<>>

\* fnOut holds the list the forEach builds and the layout returned.
CallSynchronizeLayoutWithChildren ==
  /\ pc = "call"
  /\ fnOut' = [built |-> synchronizeLoop(fnIn.initialLayout, fnIn.children,
                                         1, <<>>),
               returned |-> synchronizeLayoutWithChildren(
                              fnIn.initialLayout, fnIn.children, fnIn.cols,
                              fnIn.compactType, fnIn.allowOverlap)]
  /\ pc' = "returned"
  /\ UNCHANGED <<compVars, engine, fnIn>>

NextSync == CallSynchronizeLayoutWithChildren

SpecSync == InitSync /\ [][NextSync]_vars

\* A merge followed by getDerivedStateFromProps.  The caller renders the
\* children "a", "b", "c" without data-grid; the state's layout holds them
\* as single cells; "a" is released on "b" in Droppable state, and then the
\* children prop changes identity (same keys), so that the layout is
\* regenerated from the state's layout.
ResyncInputs ==
  [layout : {<<Item("a", s1.x, s1.y, 1, 1), Item("b", s2.x, s2.y, 1, 1),
               Item("c", s3.x, s3.y, 1, 1)>> :
               s1 \in Shapes(1, 1, 0), s2 \in Shapes(1, 1, 0),
               s3 \in Shapes(1, 1, 0)},
   cols : {GridCols}, compactType : CompactTypes, allowOverlap : BOOLEAN]

ResyncChildren ==
  <<[key |-> "a", grid |-> NoGrid], [key |-> "b", grid |-> NoGrid],
    [key |-> "c", grid |-> NoGrid]>>

InitResync ==
  /\ FnFrame
  /\ fnIn \in ResyncInputs
  /\ FnEngine(fnIn.compactType)
  /\ pc = "call"
  /\ fnOut = <<>>

\* onDragStop in Droppable state: performGrouping, then compact unless
\* allowOverlap.  fnOut is the sequence of the state's layouts.
CallPerformGrouping ==
  /\ pc = "call"
  /\ fnOut' = <<Bind(performGrouping(fnIn.layout, "a", "b", fnIn.cols, 1),
                     LAMBDA grouped :
                  IF fnIn.allowOverlap THEN grouped
                  ELSE compact(grouped, fnIn.compactType, fnIn.cols, FALSE))>>
  /\ pc' = "merged"
  /\ UNCHANGED <<compVars, engine, fnIn>>

\* getDerivedStateFromProps with newLayoutBase = prevState.layout.
CallGetDerivedStateFromProps ==
  /\ pc = "merged"
  /\ fnOut' = Append(fnOut,
                     synchronizeLayoutWithChildren(
                       fnOut[1], ResyncChildren, fnIn.cols, fnIn.compactType,
                       fnIn.allowOverlap))
  /\ pc' = "returned"
  /\ UNCHANGED <<compVars, engine, fnIn>>

NextResync == CallPerformGrouping \/ CallGetDerivedStateFromProps

SpecResync == InitResync /\ [][NextResync]_vars

\* validateLayout(layout, contextName).  A JavaScript value is its typeof
\* and its printed form; NaN is a number.
JsNumber == [type |-> "number", val |-> "1"]
JsNaN == [type |-> "number", val |-> "NaN"]
JsUndefined == [type |-> "undefined", val |-> "undefined"]
JsString(str) == [type |-> "string", val |-> str]

\* typeof value !== "number" || Number.isNaN(value)
NotANumber(value) == value.type # "number" \/ value = JsNaN

\* The first of the properties x, y, w, h of item that is no number, or
\* "" when all are numbers.
FirstBadSubProp(item) ==
  IF NotANumber(item.x) THEN "x"
  ELSE IF NotANumber(item.y) THEN "y"
  ELSE IF NotANumber(item.w) THEN "w"
  ELSE IF NotANumber(item.h) THEN "h"
  ELSE ""

RECURSIVE validateLoop(_, _)
\* The for loop of validateLayout from item n on: the Error it throws (the
\* item and the property it names), or threw = FALSE when it returns.
validateLoop(lay, n) ==
  IF n > Len(lay) THEN [threw |-> FALSE, item |-> 0, key |-> ""]
  ELSE IF FirstBadSubProp(lay[n]) # ""
  THEN [threw |-> TRUE, item |-> n, key |-> FirstBadSubProp(lay[n])]
  ELSE IF lay[n].i.type # "undefined" /\ lay[n].i.type # "string"
  THEN [threw |-> TRUE, item |-> n, key |-> "i"]
  ELSE validateLoop(lay, n + 1)

validateLayout(lay) == validateLoop(lay, 1)

\* The items handed to validateLayout: any of x, y, w, h may fail to be a
\* number in one way, and i is a string, absent or a number.
ValidateItems ==
  [x : {JsNumber, JsNaN}, y : {JsNumber, JsUndefined},
   w : {JsNumber, JsString("1")}, h : {JsNumber, JsNaN},
   i : {JsString("a"), JsString("b"), JsUndefined, JsNumber}]

ValidateInputs ==
  {<<item>> : item \in ValidateItems}
  \cup {<<item1, item2>> : item1 \in ValidateItems, item2 \in ValidateItems}

InitValidate ==
  /\ FnFrame
  /\ fnIn \in ValidateInputs
  /\ engine = "stable"
  /\ pc = "call"
  /\ fnOut = <<>>

CallValidateLayout ==
  /\ pc = "call"
  /\ fnOut' = validateLayout(fnIn)
  /\ pc' = "returned"
  /\ UNCHANGED <<compVars, engine, fnIn>>

NextValidate == CallValidateLayout

SpecValidate == InitValidate /\ [][NextValidate]_vars

\* collides(l1, l2) on two rectangles of any place and size in the grid,
\* with the same key or different keys, called both ways round.
CollidesInputs ==
  [l1 : {Item("a", r.x, r.y, r.w, r.h) : r \in Shapes(2, MaxH, 1)},
   l2 : {Item(key, r.x, r.y, r.w, r.h) :
           key \in {"a", "b"}, r \in Shapes(2, MaxH, 1)}]

InitCollides ==
  /\ FnFrame
  /\ fnIn \in CollidesInputs
  /\ engine = "stable"
  /\ pc = "call"
  /\ fnOut = <<>>

CallCollides ==
  /\ pc = "call"
  /\ fnOut' = [forth |-> collides(fnIn.l1, fnIn.l2),
               back |-> collides(fnIn.l2, fnIn.l1)]
  /\ pc' = "returned"
  /\ UNCHANGED <<compVars, engine, fnIn>>

NextCollides == CallCollides

SpecCollides == InitCollides /\ [][NextCollides]_vars

-----------------------------------------------------------------------------
(* The claims.                                                             *)

\* C1: with allowOverlap off, whatever gestures have been completed on the
\* synchronized layout (releases that place an item, resize steps, merges),
\* no two non-static top-level items of the stored layout collide, under
\* every compaction axis.
C1_NoCollisionAfterGestures ==
  ~props.allowOverlap => NoMovableCollision(layout)

\* A merge has just made a group next to another movable item, and an item
\* had to leave the first row for it.
C1_Witness ==
  /\ ~props.allowOverlap
  /\ last.op = "onDragStop" /\ last.merge = "new"
  /\ \E j, k \in 1..Len(layout) :
       /\ layout[j].isGroup /\ ~layout[k].isGroup /\ ~layout[k].static
       /\ layout[j].y + layout[k].y > 0

\* C2: a static item whose isDraggable is not true has the same x and y
\* after a moveElement call as before it, whichever item is moved and
\* whatever the axis and preventCollision are.
C2_StaticItemsKeepPlace ==
  pc = "returned" =>
    \A k \in 1..Len(fnIn.layout) :
      (fnIn.layout[k].static /\ fnIn.layout[k].isDraggable # "true")
      => (fnOut[k].x = fnIn.layout[k].x /\ fnOut[k].y = fnIn.layout[k].y)

\* C3: moveElement called as a user action, with allowOverlap and
\* preventCollision off, on a layout without collisions returns a layout in
\* which no two non-static items collide, under every axis.
C3_MoveLeavesNoCollision ==
  (pc = "returned" /\ ~fnIn.preventCollision /\ CollisionFree(fnIn.layout))
  => NoMovableCollision(fnOut)

\* C4: whatever layout compact is given (overlapping items included) and
\* whatever the axis, no two non-static items of the layout it returns
\* collide.
C4_CompactLeavesNoCollision ==
  pc \in {"returned", "again"} => NoMovableCollision(fnOut[1])

\* compact has returned for an input in which two non-static items
\* collided.
C4_Witness ==
  /\ pc = "returned"
  /\ ~NoMovableCollision(fnIn.layout)
  /\ Len(fnOut[1]) = Len(fnIn.layout)

\* C5: under axis none with preventCollision and allowOverlap off, a user
\* move of item A onto a non-static item B of its row leaves A at the target
\* with its size and puts B at x = A.x + A.w with its y, w and h; so 11 moved
\* to (8,0) leaves 8 at (10,0,2,2).
C5_NeighbourDisplacedSideways ==
  LET A == fnIn.layout[1]
      B == fnIn.layout[2]
      target == [A EXCEPT !.x = fnIn.x, !.y = fnIn.y]
  IN (/\ pc = "returned"
      /\ fnIn.compactType = "none" /\ ~fnIn.preventCollision
      /\ Len(fnIn.layout) = 2 /\ ~B.static
      /\ CollisionFree(fnIn.layout)
      /\ A.y = B.y /\ fnIn.y = B.y
      /\ collides(target, B))
     => /\ fnOut[1].x = fnIn.x /\ fnOut[1].y = fnIn.y
        /\ fnOut[1].w = A.w /\ fnOut[1].h = A.h
        /\ fnOut[2].x = fnIn.x + A.w
        /\ fnOut[2].y = B.y /\ fnOut[2].w = B.w /\ fnOut[2].h = B.h

\* C6: compaction is idempotent: every item of compact(compact(L)) has the
\* x, y, w and h of the item with its key in compact(L), for every L and
\* axis.
C6_CompactIdempotent ==
  pc = "again" =>
    /\ Len(fnOut[2]) = Len(fnOut[1])
    /\ \A k \in 1..Len(fnOut[1]) :
         /\ fnOut[2][k].i = fnOut[1][k].i
         /\ fnOut[2][k].x = fnOut[1][k].x /\ fnOut[2][k].y = fnOut[1][k].y
         /\ fnOut[2][k].w = fnOut[1][k].w /\ fnOut[2][k].h = fnOut[1][k].h

\* The first compaction moved an item, and the layout was compacted again.
C6_Witness ==
  /\ pc = "again"
  /\ \E k \in 1..Len(fnIn.layout) :
       fnOut[1][k].x # fnIn.layout[k].x \/ fnOut[1][k].y # fnIn.layout[k].y

\* C7: after any completed manipulation of a layout that started in bounds
\* (a release on a cell of the grid, a resize step, a merge), every top-level
\* item, new and grown groups included, has x >= 0, y >= 0 and
\* x + w <= cols.
C7_ItemsStayInBounds ==
  \A k \in 1..Len(layout) :
    layout[k].x >= 0 /\ layout[k].y >= 0
    /\ layout[k].x + layout[k].w <= props.cols

\* C8: after any merges the keys of the top-level items are pairwise
\* distinct: a group's key differs from every key the caller supplied and
\* from every other group's.
C8_KeysStayDistinct ==
  \A j, k \in 1..Len(layout) : j # k => layout[j].i # layout[k].i

\* C9: when a release merges plain item A onto plain item B, the group made
\* of them stands, in the layout the release stores, at the x and y B had
\* before the release, under every axis.
C9_GroupTakesTargetPlace ==
  [][(activeDrag # NoKey /\ activeDrag' = NoKey /\ last'.merge = "new")
     => LET t == getLayoutItem(layout, groupingTarget) IN
        \A g \in 1..Len(layout') :
          (/\ layout'[g].isGroup
           /\ Len(layout'[g].children) = 2
           /\ layout'[g].children[1].i = activeDrag
           /\ layout'[g].children[2].i = groupingTarget)
          => (layout'[g].x = layout[t].x /\ layout'[g].y = layout[t].y)]_vars

\* C10: a new group of dragged item A and target B is arranged horizontally
\* (w = wA + wB, h = max(hA, hB), children at (0,0) and (wA,0)) exactly when
\* B.x + wA + wB <= cols, and vertically otherwise (w = max(wA, wB),
\* h = hA + hB, children at (0,0) and (0,hA)); it is anchored at B's cell.
C10_ArrangementByFit ==
  LET A == fnIn.draggingItem
      B == fnIn.targetItem
      c == fnOut.children
  IN pc = "returned" =>
       /\ fnOut.groupPosition = [x |-> B.x, y |-> B.y]
       /\ Len(c) = 2 /\ c[1].i = A.i /\ c[2].i = B.i
       /\ c[1].x = 0 /\ c[1].y = 0
       /\ IF B.x + A.w + B.w <= fnIn.cols
          THEN /\ fnOut.groupSize = [w |-> A.w + B.w, h |-> Max(A.h, B.h)]
               /\ c[2].x = A.w /\ c[2].y = 0
          ELSE /\ fnOut.groupSize = [w |-> Max(A.w, B.w), h |-> A.h + B.h]
               /\ c[2].x = 0 /\ c[2].y = A.h

\* The two items did not fit side by side from the target's column, and the
\* group came out stacked.
C10_Witness ==
  /\ pc = "returned"
  /\ fnIn.targetItem.x + fnIn.draggingItem.w + fnIn.targetItem.w > fnIn.cols
  /\ fnOut.groupSize.h = fnIn.draggingItem.h + fnIn.targetItem.h

\* C11: moveElement with preventCollision on and allowOverlap off, asked to
\* put the item on a cell where it collides with another item, returns the
\* array it was given, with the item at its old x and y, its moved flag
\* false and every other item as it was.
C11_CollidingMoveReverts ==
  LET l == fnIn.l
      target == [fnIn.layout[l] EXCEPT !.x = fnIn.x, !.y = fnIn.y]
  IN (/\ pc = "returned" /\ fnIn.preventCollision
      /\ \E k \in 1..Len(fnIn.layout) : collides(fnIn.layout[k], target))
     => /\ moveElementReturnsInput(fnIn.layout, l, fnIn.x, fnIn.y, FALSE)
        /\ fnOut[l].x = fnIn.layout[l].x /\ fnOut[l].y = fnIn.layout[l].y
        /\ ~fnOut[l].moved
        /\ \A k \in 1..Len(fnIn.layout) : k # l => fnOut[k] = fnIn.layout[k]

\* The item was asked to move to another cell, where a non-static item
\* stands, and the call has returned.
C11_Witness ==
  /\ pc = "returned" /\ fnIn.preventCollision
  /\ (fnIn.x # fnIn.layout[1].x \/ fnIn.y # fnIn.layout[1].y)
  /\ ~fnIn.layout[2].static
  /\ CollisionFree(fnIn.layout)
  /\ collides(fnIn.layout[2],
              [fnIn.layout[1] EXCEPT !.x = fnIn.x, !.y = fnIn.y])

\* A drag gesture ends by release: onDragStop runs for the dragged item.
Release == activeDrag # NoKey /\ resizing = NoKey /\ activeDrag' = NoKey

\* The grouping state is Droppable with a target set.
Droppable == isGroupDroppable /\ groupingTarget # NoKey

\* The layout a release stores when it places item l on cell (x, y).
PlacedLayout(l, x, y) ==
  Bind(moveElement(layout, l, x, y, TRUE, props.preventCollision,
                   props.compactType, props.cols, props.allowOverlap),
       LAMBDA placed :
    IF props.allowOverlap THEN placed
    ELSE compact(placed, props.compactType, props.cols, FALSE))

\* The release stored a placement of item l on some cell of the grid, and
\* removed no item.
ReleasePlaces(l) ==
  /\ Len(layout') = Len(layout)
  /\ \A k \in 1..Len(layout) : layout'[k].i = layout[k].i
  /\ \E x \in 0..(GridCols - 1), y \in 0..MaxY :
       layout' = PlacedLayout(l, x, y)

C13_DroppableOnlyAfterDelay ==
  [][/\ (~isGroupDroppable /\ isGroupDroppable') =>
          /\ groupingTarget # NoKey /\ groupingTarget' = groupingTarget
          /\ \E t \in timers :
               /\ t.id = groupingTimer /\ t.target = groupingTarget
               /\ t.remaining = 0 /\ timers' = timers \ {t}
          /\ layout' = layout
     /\ (\E t \in timers : t.remaining = 0 /\ timers' = timers \ {t}
                            /\ activeDrag' = activeDrag)
          => layout' = layout]_vars

\* The timeout of the current target has fired during the drag.
C13_Witness ==
  /\ activeDrag # NoKey /\ isGroupDroppable /\ groupingTarget # NoKey
  /\ timers = {}

\* C14: when a drag movement finds another item under the pointer than the
\* current target, in Targeting as in Droppable state, isGroupDroppable
\* becomes false, the timeout started before is cancelled (it is no longer
\* pending, so it cannot mark the new target), and a new timeout with the
\* whole delay is started for the new target.
C14_RetargetRestartsTimer ==
  [][(/\ activeDrag # NoKey /\ activeDrag' = activeDrag
      /\ groupingTarget # NoKey
      /\ groupingTarget' # NoKey /\ groupingTarget' # groupingTarget)
     => /\ ~isGroupDroppable'
        /\ \A t \in timers' : t.id # groupingTimer
        /\ groupingTimer' # NoTimer
        /\ timers' = {[id |-> groupingTimer', target |-> groupingTarget',
                       remaining |-> GroupDelay]}]_vars

\* The pointer went from one target to another item, whose timeout (not the
\* first one of the gesture) is now pending with its whole delay.
C14_Witness ==
  /\ activeDrag = "a" /\ groupingTarget = "c" /\ ~isGroupDroppable
  /\ groupingTimer > 1
  /\ \E t \in timers : t.target = "c" /\ t.remaining = GroupDelay

\* C15: a drag movement that finds no item under the pointer leaves the
\* grouping state Idle, whether it was Targeting or Droppable: no timeout is
\* pending, the target is cleared and isGroupDroppable is false.
C15_NoTargetReturnsToIdle ==
  [][(activeDrag # NoKey /\ onDrag(activeDrag, NoKey))
     => /\ groupingTarget' = NoKey
        /\ groupingTimer' = NoTimer
        /\ ~isGroupDroppable'
        /\ timers' = {}]_vars

\* The pointer has left every item while a timeout had been started for a
\* target in this gesture: nothing of it is left.
C15_Witness ==
  /\ activeDrag # NoKey /\ groupingTarget = NoKey /\ groupingTimer = NoTimer
  /\ ~isGroupDroppable /\ timers = {}
  /\ last.op = "left"

RowMajorPlaced(ch, k, gx, cols, emptyRowWraps) ==
  LET rowW == IF k = 1 THEN 0 ELSE ch[k - 1].x + ch[k - 1].w
      rowY == IF k = 1 THEN 0 ELSE ch[k - 1].y
      wrap == /\ gx + rowW + ch[k].w > cols
              /\ (emptyRowWraps \/ rowW > 0)
  IN /\ ch[k].x = (IF wrap THEN 0 ELSE rowW)
     /\ ch[k].y = (IF wrap THEN rowY + 2 ELSE rowY)

\* after is before with the plain item a merged onto the group g.
MergedOnto(before, after, a, g, cols, emptyRowWraps) ==
  LET rest == SelectSeq(before, LAMBDA item : item.i # a)
      A == before[getLayoutItem(before, a)]
      G == before[getLayoutItem(before, g)]
      G2 == after[getLayoutItem(after, g)]
      ch == G2.children
      n == Len(G.children)
  IN /\ Len(after) = Len(rest)
     /\ \A j \in 1..Len(rest) :
          /\ after[j].i = rest[j].i
          /\ rest[j].i # g => after[j] = rest[j]
     /\ G2.i = G.i /\ G2.x = G.x /\ G2.y = G.y /\ G2.isGroup
     /\ Len(ch) = n + 1
     /\ \A k \in 1..n : /\ ch[k].i = G.children[k].i
                         /\ ch[k].w = G.children[k].w
                         /\ ch[k].h = G.children[k].h
     /\ ch[n + 1].i = a /\ ch[n + 1].w = A.w /\ ch[n + 1].h = A.h
     /\ \A k \in 1..(n + 1) : RowMajorPlaced(ch, k, G.x, cols, emptyRowWraps)
     /\ \A k \in 1..(n + 1) : ch[k].x + ch[k].w <= G2.w /\ ch[k].y + ch[k].h <= G2.h
     /\ \E k \in 1..(n + 1) : ch[k].x + ch[k].w = G2.w
     /\ \E k \in 1..(n + 1) : ch[k].y + ch[k].h = G2.h

IsGroupIn(lay, i) ==
  getLayoutItem(lay, i) # 0 /\ lay[getLayoutItem(lay, i)].isGroup

\* C19: a release in the Droppable state whose dragged item and target are
\* both groups merges nothing: the stored layout has the items it had,
\* under the same keys, and every group of it, the two concerned included,
\* has the children list it had.
C19_GroupOntoGroupIsNoOp ==
  [][(/\ Release /\ Droppable
      /\ IsGroupIn(layout, activeDrag)
      /\ IsGroupIn(layout, groupingTarget))
     => /\ Len(layout') = Len(layout)
        /\ \A j \in 1..Len(layout) :
             /\ layout'[j].i = layout[j].i
             /\ layout'[j].isGroup = layout[j].isGroup
             /\ layout'[j].children = layout[j].children
        /\ last'.op = "onDragStop"]_vars

\* A group has just been released on another group, droppable, and the
\* layout holds two groups of two children each.
C19_Witness ==
  /\ last = [op |-> "onDragStop", merge |-> "unsupported"]
  /\ activeDrag = NoKey
  /\ Cardinality({j \in 1..Len(layout) :
                    layout[j].isGroup /\ Len(layout[j].children) = 2}) = 2

\* The x, y, w and h of an item or of a data-grid prop.
Geometry(l) == [x |-> l.x, y |-> l.y, w |-> l.w, h |-> l.h]

\* The geometry the descriptor child is to get: its data-grid, or else
\* that of the item of initialLayout with its key.
DescriptorGeometry(initialLayout, child) ==
  IF child.grid # NoGrid THEN child.grid
  ELSE Geometry(initialLayout[getLayoutItem(initialLayout, child.key)])

\* The descriptors that have data-grid or an item in initialLayout.
PlacedChildren(initialLayout, children) ==
  {n \in 1..Len(children) :
     children[n].grid # NoGrid
       \/ getLayoutItem(initialLayout, children[n].key) # 0}

\* Every item of lay lies within the columns.
WithinColumns(lay, cols) ==
  \A k \in 1..Len(lay) : lay[k].x >= 0 /\ lay[k].x + lay[k].w <= cols

\* No static item of lay collides with an item of lay.
NoStaticCollision(lay) ==
  \A j, k \in 1..Len(lay) : lay[j].static => ~collides(lay[j], lay[k])

\* Bounds correction and compaction find nothing to change in the built
\* list.
BuiltListSettled ==
  /\ WithinColumns(fnOut.built, fnIn.cols)
  /\ \/ fnIn.allowOverlap /\ NoStaticCollision(fnOut.built)
     \/ fnIn.compactType = "none" /\ CollisionFree(fnOut.built)

\* C20 as stated: the item synchronizeLayoutWithChildren returns for a
\* descriptor whose key is in the existing layout and that has no data-grid
\* has the existing item's x, y, w and h, and the item returned for a
\* descriptor with data-grid has the data-grid's.
C20_SynchronizeKeepsGeometry ==
  pc = "returned"
    => \A n \in PlacedChildren(fnIn.initialLayout, fnIn.children) :
         /\ fnOut.returned[n].i = fnIn.children[n].key
         /\ Geometry(fnOut.returned[n])
              = DescriptorGeometry(fnIn.initialLayout, fnIn.children[n])

\* C20, amended: it is the item built for the descriptor that has this
\* geometry.  The item returned is the built one after bounds correction
\* and compaction: it has the descriptor's key and the built h, and it has
\* the built x, y and w too when every built item lies within the columns
\* and either overlap is allowed and no static item collides, or no axis is
\* compacted along and no two built items collide.
C20_SynchronizeBuildsGeometry ==
  pc = "returned"
    => /\ Len(fnOut.returned) = Len(fnIn.children)
       /\ \A n \in PlacedChildren(fnIn.initialLayout, fnIn.children) :
            /\ fnOut.returned[n].i = fnIn.children[n].key
            /\ Geometry(fnOut.built[n])
                 = DescriptorGeometry(fnIn.initialLayout, fnIn.children[n])
            /\ fnOut.returned[n].h = fnOut.built[n].h
            /\ BuiltListSettled
                 => Geometry(fnOut.returned[n]) = Geometry(fnOut.built[n])

\* Synchronization has returned for three descriptors, one without
\* data-grid whose key the existing layout has (and whose item is not in the
\* first row) and one with data-grid, compacted along no axis, and the
\* built list needed no change.
C20_Witness ==
  /\ pc = "returned"
  /\ ~fnIn.allowOverlap
  /\ BuiltListSettled
  /\ Len(fnIn.children) = 3
  /\ fnIn.children[1].grid = NoGrid /\ fnIn.children[2].grid # NoGrid
  /\ fnOut.returned[1].y > 0
  /\ Geometry(fnOut.returned[1]) = Geometry(fnIn.initialLayout[1])
  /\ Geometry(fnOut.returned[2]) = fnIn.children[2].grid

\* The descriptors that have neither data-grid nor an item in
\* initialLayout.
NewChildren(initialLayout, children) ==
  (1..Len(children)) \ PlacedChildren(initialLayout, children)

\* C21: the item built for a descriptor without data-grid whose key the
\* existing layout lacks is 1 x 1 at x = 0 and y = the bottom of the items
\* built before it, and, before bounds correction and compaction, it
\* collides with no item taken over from the existing layout, whether the
\* descriptor comes first or last.
C21_NewItemBelowExisting ==
  pc = "returned"
    => \A n \in NewChildren(fnIn.initialLayout, fnIn.children) :
         /\ fnOut.built[n].i = fnIn.children[n].key
         /\ Geometry(fnOut.built[n])
              = [x |-> 0, y |-> bottom(SubSeq(fnOut.built, 1, n - 1)),
                 w |-> 1, h |-> 1]
         /\ \A m \in 1..Len(fnOut.built) :
              getLayoutItem(fnIn.initialLayout, fnOut.built[m].i) # 0
                => ~collides(fnOut.built[n], fnOut.built[m])

\* Some item of lay has an x, y, w or h that is no number or is NaN, or an
\* i that is present and no string, or two items of lay have the same key.
Malformed(lay) ==
  \/ \E n \in 1..Len(lay) :
       \/ \E value \in {lay[n].x, lay[n].y, lay[n].w, lay[n].h} :
            value.type # "number" \/ value.val = "NaN"
       \/ lay[n].i.type \notin {"undefined", "string"}
  \/ \E n, m \in 1..Len(lay) :
       n # m /\ lay[n].i.type = "string" /\ lay[n].i = lay[m].i

\* C22: validateLayout throws exactly for the malformed layouts: those with
\* an x, y, w or h that is no number or NaN, with an i that is present and
\* no string, or with a key that two items share.
C22_ValidationRejectsMalformed ==
  pc = "returned" => (fnOut.threw <=> Malformed(fnIn))

\* onDragStart, onDrag, onDragStop or onResize is called with a key that
\* no item of the layout has.
AbsentKeyCall ==
  \/ onDragStart(AbsentKey)
  \/ onDrag(AbsentKey, NoKey)
  \/ onDragStop(AbsentKey, 0, 0, 1)
  \/ onResize(AbsentKey, 1, 1, "se")

\* C23: a call of onDragStart, onDrag, onDragStop or onResize with a key
\* that no item of the layout has returns at once: the layout, the gesture
\* in progress and the grouping state stay what they were.
C23_AbsentKeyIsNoOp ==
  [][AbsentKeyCall
       => /\ layout' = layout
          /\ UNCHANGED <<props, activeDrag, resizing, groupingTarget,
                         groupingTimer, isGroupDroppable, timers, mounted>>]_vars

\* A handler has just returned for an absent key in the middle of a drag
\* whose timer is running, the layout holding a group.
C23_Witness ==
  /\ last.op = "absent"
  /\ getLayoutItem(layout, AbsentKey) = 0
  /\ activeDrag # NoKey /\ groupingTarget # NoKey /\ timers # {}
  /\ \E k \in 1..Len(layout) : layout[k].isGroup

\* The x, y and moved of the items of lay.
Placement(lay) ==
  [k \in 1..Len(lay) |-> [x |-> lay[k].x, y |-> lay[k].y,
                          moved |-> lay[k].moved]]

\* C25: compact returns a list whose item at each index has the key, w and
\* h of the input item at that index, and after the call every item of the
\* input layout has the x, y and moved it had before, the items that the
\* resolution of a collision pushed included.
C25_CompactKeepsInput ==
  pc \in {"returned", "again"}
    => /\ Len(fnOut[1]) = Len(fnIn.layout)
       /\ \A k \in 1..Len(fnIn.layout) :
            /\ fnOut[1][k].i = fnIn.layout[k].i
            /\ fnOut[1][k].w = fnIn.layout[k].w
            /\ fnOut[1][k].h = fnIn.layout[k].h
       /\ Placement(compactCall(fnIn.layout, fnIn.compactType, fnIn.cols,
                                FALSE).input)
            = Placement(fnIn.layout)

\* C24: after moveElement has returned, the items of the layout that was
\* passed in, the moved item and the displaced ones included, have the x, y
\* and moved they had before the call.
C24_MoveElementKeepsInput ==
  pc = "returned"
    => Placement(moveElementInput(fnIn.layout, fnIn.l, fnIn.x, fnIn.y, TRUE,
                                  fnIn.preventCollision, fnIn.compactType,
                                  fnIn.cols, FALSE))
         = Placement(fnIn.layout)

\* C26: a release of a dragged item calls onLayoutChange exactly when the
\* layout it stores differs from the layout the drag started with (which
\* the drag itself left alone), with allowOverlap on or off.
C26_ReleaseNotifiesIffChanged ==
  [][\A x \in 0..(GridCols - 1), y \in 0..MaxY, dateNow \in 1..MaxClock :
       (Release /\ onDragStop(activeDrag, x, y, dateNow))
         => (DragStopNotifies(layout, activeDrag, x, y, isGroupDroppable,
                              groupingTarget, dateNow)
               <=> layout' # layout)]_vars

\* The layout a step-by-step run has produced.
StepsResult ==
  IF fnIn.fn = "compact" THEN fnOut.out ELSE fnOut.heap

\* The layout the function returns for the call's arguments.
StepsExpected ==
  IF fnIn.fn = "moveElement"
  THEN moveElement(fnIn.layout, fnIn.l, fnIn.x, fnIn.y, TRUE,
                   fnIn.preventCollision, fnIn.compactType, fnIn.cols, FALSE)
  ELSE IF fnIn.fn = "compact"
  THEN compact(fnIn.layout, fnIn.compactType, fnIn.cols, FALSE)
  ELSE correctBounds(fnIn.layout, fnIn.cols)

\* C27: every moveElement, compact and correctBounds call on a finite
\* well-formed layout, run step by step, returns, and what it has built
\* when it returns is the function's result with every displacement
\* carried out; for each compactType, with static items, items that
\* collide with one another and an item wider than the grid.
C27_CallsReturn == <>(pc = "returned" /\ StepsResult = StepsExpected)

\* A moveElement call on a layout with a static item has returned after
\* pushing another item than the moved one to a new row.
C27_Witness ==
  /\ pc = "returned"
  /\ fnIn.fn = "moveElement"
  /\ \E n \in 1..Len(fnIn.layout) : fnIn.layout[n].static
  /\ \E n \in 2..Len(fnIn.layout) :
       /\ ~fnIn.layout[n].static
       /\ fnOut.heap[n].y # fnIn.layout[n].y

\* C28: after correctBounds every item of the array has 0 <= x and
\* x + w <= cols, whatever x and w it had (x < 0 and w > cols included),
\* and the array returned is the array given.
C28_CorrectBoundsKeepsItemsInColumns ==
  (pc = "returned" /\ fnIn.fn = "correctBounds")
    => /\ \A k \in 1..Len(fnOut.input) :
            /\ 0 <= fnOut.input[k].x
            /\ fnOut.input[k].x + fnOut.input[k].w <= fnIn.cols
       /\ fnOut.sameArray
       /\ fnOut.returned = fnOut.input

\* correctBounds has returned from a layout with an item that began left of
\* column 0 and an item wider than the grid.
C28_Witness ==
  /\ pc = "returned" /\ fnIn.fn = "correctBounds"
  /\ fnIn.layout[1].x < 0
  /\ fnIn.layout[1].x + fnIn.layout[1].w <= fnIn.cols
  /\ fnIn.layout[2].w > fnIn.cols
  /\ fnOut.returned[1].x = 0

\* The call is one that moveElement returns from before moving anything.
MoveIsNoOp ==
  \/ fnIn.layout[fnIn.l].static /\ fnIn.layout[fnIn.l].isDraggable # "true"
  \/ fnIn.layout[fnIn.l].x = fnIn.x /\ fnIn.layout[fnIn.l].y = fnIn.y

\* C29: moveElement of a static item whose isDraggable is not true, or to
\* the cell the item is at, returns the array it was given with every item
\* as it was.
C29_NoOpMoveReturnsInput ==
  (pc = "returned" /\ fnIn.fn = "moveElement" /\ MoveIsNoOp)
    => /\ fnOut.sameArray
       /\ fnOut.returned = fnIn.layout
       /\ fnOut.input = fnIn.layout

\* moveElement has returned from a call on a static item with isDraggable
\* unset and a target that is not its cell.
C29_Witness ==
  /\ pc = "returned" /\ fnIn.fn = "moveElement"
  /\ fnIn.layout[fnIn.l].static
  /\ fnIn.layout[fnIn.l].isDraggable = "unset"
  /\ fnIn.layout[fnIn.l].x # fnIn.x
  /\ fnOut.returned = fnIn.layout

\* The item, put at the target, collides with another item.
TargetCollides ==
  \E k \in 1..Len(fnIn.layout) :
    collides([fnIn.layout[fnIn.l] EXCEPT !.x = fnIn.x, !.y = fnIn.y],
             fnIn.layout[k])

\* The moved item is at the target, no other item has a new x or y, and the
\* array returned is not the one given but holds copies of its items.
OverlapAccepted ==
  /\ fnOut.returned[fnIn.l].x = fnIn.x
  /\ fnOut.returned[fnIn.l].y = fnIn.y
  /\ \A k \in 1..Len(fnIn.layout) :
       k # fnIn.l =>
         /\ fnOut.returned[k].x = fnIn.layout[k].x
         /\ fnOut.returned[k].y = fnIn.layout[k].y
         /\ fnOut.input[k].x = fnIn.layout[k].x
         /\ fnOut.input[k].y = fnIn.layout[k].y
  /\ ~fnOut.sameArray
  /\ fnOut.returned = cloneLayout(fnOut.input)

\* C30 as stated: with allowOverlap, moveElement onto a target that
\* collides with other items leaves the item at the target, moves no other
\* item and returns a new array of copies.
C30_OverlapMoveReturnsClones ==
  (pc = "returned" /\ fnIn.fn = "moveElement" /\ fnIn.allowOverlap
     /\ TargetCollides)
    => OverlapAccepted

\* C30: the same for a call that is not one of the no-op calls (the item is
\* not static or its isDraggable is true, and the target is not its cell).
C30_OverlapMoveOfMovableReturnsClones ==
  (pc = "returned" /\ fnIn.fn = "moveElement" /\ fnIn.allowOverlap
     /\ TargetCollides /\ ~MoveIsNoOp)
    => OverlapAccepted

\* With allowOverlap an item has been moved onto the other one, for a
\* compactType that would have pushed that one away.
C30_Witness ==
  /\ pc = "returned" /\ fnIn.fn = "moveElement" /\ fnIn.allowOverlap
  /\ TargetCollides /\ ~MoveIsNoOp
  /\ fnIn.compactType = "vertical"
  /\ ~collides(fnIn.layout[1], fnIn.layout[2])
  /\ collides(fnOut.returned[1], fnOut.returned[2])

\* The grid cells a rectangle covers.
Cells(l) ==
  {<<cx, cy>> \in (l.x..(l.x + l.w - 1)) \X (l.y..(l.y + l.h - 1)) : TRUE}

\* l1 ends where l2 begins, on one of the axes.
Touching(l1, l2) == l1.x + l1.w = l2.x \/ l1.y + l1.h = l2.y

\* C31: collides(a, b) is true exactly when the keys differ and the two
\* rectangles have a cell in common; rectangles that touch along an edge
\* do not collide, and collides(a, b) = collides(b, a).
C31_CollidesIffOverlap ==
  pc = "returned"
    => /\ fnOut.forth <=> (/\ fnIn.l1.i # fnIn.l2.i
                           /\ Cells(fnIn.l1) \cap Cells(fnIn.l2) # {})
       /\ Touching(fnIn.l1, fnIn.l2) => ~fnOut.forth
       /\ fnOut.forth = fnOut.back

\* collides has answered for two rectangles with different keys that share
\* an edge and a row.
C31_Witness ==
  /\ pc = "returned"
  /\ fnIn.l1.i # fnIn.l2.i
  /\ fnIn.l1.x + fnIn.l1.w = fnIn.l2.x
  /\ fnIn.l1.y = fnIn.l2.y
  /\ ~fnOut.forth

\* The keys of the widgets of a layout: its plain items and the children of
\* its groups.
WidgetKeys(lay) ==
  {lay[k].i : k \in {n \in 1..Len(lay) : ~lay[n].isGroup}}
  \cup UNION {{lay[k].children[c].i : c \in 1..Len(lay[k].children)} :
              k \in {n \in 1..Len(lay) : lay[n].isGroup}}

\* child is item with a place of its own: same key, w and h.
SameWidget(child, item) ==
  child.i = item.i /\ child.w = item.w /\ child.h = item.h

\* A release that merges the dragged item d of `layout` with the target t,
\* the two plain (kind "new") or t a group (kind "add").
Merges(kind) ==
  /\ Release /\ Droppable
  /\ MergeKind(layout, activeDrag, groupingTarget) = kind

\* C32: a merge of two plain items A and B makes a group whose children are
\* exactly A and B; a merge of a plain item onto a group lengthens the
\* group's children by one, the item; every child keeps its key, w and h;
\* and the keys of the widgets (plain items and children of groups) are
\* the same before and after the merge.
C32_ChildrenTrackMerges ==
  [][LET d == getLayoutItem(layout, activeDrag)
         t == getLayoutItem(layout, groupingTarget)
     IN
     /\ Merges("new") =>
          LET g == layout'[Len(layout')] IN
          /\ Len(layout') = Len(layout) - 1
          /\ g.isGroup /\ Len(g.children) = 2
          /\ SameWidget(g.children[1], layout[d])
          /\ SameWidget(g.children[2], layout[t])
          /\ WidgetKeys(layout') = WidgetKeys(layout)
     /\ Merges("add") =>
          LET g == layout'[IF d < t THEN t - 1 ELSE t]
              n == Len(layout[t].children)
          IN
          /\ Len(layout') = Len(layout) - 1
          /\ g.isGroup /\ g.i = layout[t].i
          /\ Len(g.children) = n + 1
          /\ \A c \in 1..n : SameWidget(g.children[c], layout[t].children[c])
          /\ SameWidget(g.children[n + 1], layout[d])
          /\ WidgetKeys(layout') = WidgetKeys(layout)]_vars

\* A plain item has been merged onto a group that now has three children.
C32_Witness ==
  /\ last = [op |-> "onDragStop", merge |-> "add"]
  /\ \E k \in 1..Len(layout) :
       layout[k].isGroup /\ Len(layout[k].children) = 3

\* C33: in the layout compact returns every item, static or not, has
\* moved = false, for every compactType.
C33_CompactClearsMoved ==
  pc = "returned" => \A k \in 1..Len(fnOut) : ~fnOut[k].moved

\* compact has returned from a layout in which a static item and another
\* item had moved = true.
C33_Witness ==
  /\ pc = "returned"
  /\ \E k \in 1..Len(fnIn.layout) :
       fnIn.layout[k].static /\ fnIn.layout[k].moved
  /\ \E k \in 1..Len(fnIn.layout) :
       ~fnIn.layout[k].static /\ fnIn.layout[k].moved
  /\ fnOut # fnIn.layout

\* Item k of the corrected layout on the row it had when correctBounds was
\* called.
OnOldRow(k) == [fnOut.returned[k] EXCEPT !.y = fnIn.layout[k].y]

\* Item k overlaps no static item, neither as it was given nor with the
\* corrected x and w.
ClearOfStatics(k) ==
  \A j \in 1..Len(fnIn.layout) :
    fnIn.layout[j].static =>
      /\ ~collides(fnIn.layout[j], fnIn.layout[k])
      /\ ~collides(OnOldRow(j), OnOldRow(k))

\* C34: correctBounds leaves the y of every movable item, and the y of
\* every static item that overlaps no static item; it lowers a static item
\* only to free it from static items.
C34_OnlyStaticCollisionsPushDown ==
  (pc = "returned" /\ fnIn.fn = "correctBounds")
    => \A k \in 1..Len(fnIn.layout) :
         /\ ~fnIn.layout[k].static => fnOut.returned[k].y = fnIn.layout[k].y
         /\ (fnIn.layout[k].static /\ ClearOfStatics(k))
              => fnOut.returned[k].y = fnIn.layout[k].y

\* The innermost moveElement call is about to resolve a collision of its
\* item with an item that has not been moved yet.
Resolving ==
  /\ pc = "running" /\ fnIn.fn = "moveElement"
  /\ fnOut.stack # <<>>
  /\ LET frame == fnOut.stack[Len(fnOut.stack)] IN
     /\ frame.n <= Len(frame.collisions)
     /\ ~fnOut.heap[frame.collisions[frame.n]].moved

\* The item of the innermost call and the item it collides with.
MovingItem == fnOut.stack[Len(fnOut.stack)].l
CollidingItem ==
  LET frame == fnOut.stack[Len(fnOut.stack)] IN frame.collisions[frame.n]

\* Item b of the array on the rows directly above item a.
PlacedAbove(b, a) ==
  [fnOut.heap[b] EXCEPT !.i = "-1",
                        !.y = Max(fnOut.heap[a].y - fnOut.heap[b].h, 0)]

\* C35: with compactType vertical, when the user's move of A collides with
\* a non-static B and B, put on the rows directly above A (same x,
\* y = max(A.y - B.h, 0)), collides with no item of the layout, B is moved
\* exactly there and nothing else changes; a collision found deeper in the
\* cascade never moves an item up.
C35_ReversePlacementAtUserCollision ==
  [][(Resolving /\ fnIn.compactType = "vertical" /\ MoveStep) =>
       LET a == MovingItem
           b == CollidingItem
           user == fnOut.stack[Len(fnOut.stack)].isUserAction
           free == \A k \in 1..Len(fnOut.heap) :
                     ~collides(fnOut.heap[k], PlacedAbove(b, a))
       IN
       /\ (user /\ ~fnOut.heap[b].static /\ free) =>
            fnOut'.heap = [fnOut.heap EXCEPT ![b].y = PlacedAbove(b, a).y,
                                             ![b].moved = TRUE]
       /\ ~user =>
            \A k \in 1..Len(fnOut.heap) :
              fnOut'.heap[k].y >= fnOut.heap[k].y]_vars

\* The user moved a down onto b, the cell above was free, and b is now
\* there, above a.
C35_Witness ==
  /\ pc = "returned" /\ fnIn.fn = "moveElement"
  /\ fnIn.compactType = "vertical"
  /\ ~fnIn.layout[2].static
  /\ collides(fnIn.layout[2],
              [fnIn.layout[1] EXCEPT !.x = fnIn.x, !.y = fnIn.y])
  /\ fnOut.heap[1].y = fnIn.y
  /\ fnOut.heap[2].y < fnIn.layout[2].y
  /\ fnOut.heap[2].y + fnOut.heap[2].h = fnOut.heap[1].y

\* C36: after every completed gesture, a drag release or a resize step, no
\* item of the layout has moved = true, whatever the props (allowOverlap
\* included).
C36_NoMovedFlagAfterGesture ==
  last.op \in {"onDragStop", "onResize"}
    => \A k \in 1..Len(layout) : ~layout[k].moved

\* C37: regenerating a layout that holds a group from the same child keys
\* keeps the group with its children and makes no child of the group a
\* top-level item.
C37_ResyncKeepsGroup ==
  pc = "returned" =>
    \A g \in 1..Len(fnOut[1]) :
      fnOut[1][g].isGroup =>
        /\ \E k \in 1..Len(fnOut[2]) :
             /\ fnOut[2][k].isGroup
             /\ fnOut[2][k].i = fnOut[1][g].i
             /\ fnOut[2][k].children = fnOut[1][g].children
        /\ \A c \in 1..Len(fnOut[1][g].children) :
             getLayoutItem(fnOut[2], fnOut[1][g].children[c].i) = 0

\* The layout the merges have made so far.
MergedLayout == IF pc = "call" THEN fnIn.layout ELSE fnOut[Len(fnOut)]

\* C38: after a merge of two plain items or of a plain item onto a group,
\* no two children of the group overlap in the group's own coordinates,
\* whatever their heights, and every child lies within the group's w and h.
C38_ChildrenDisjointInsideGroup ==
  LET g == TargetGroup(MergedLayout) IN
  /\ \A c1, c2 \in 1..Len(g.children) :
       ~collides(g.children[c1], g.children[c2])
  /\ \A c \in 1..Len(g.children) :
       /\ 0 <= g.children[c].x /\ g.children[c].x + g.children[c].w <= g.w
       /\ 0 <= g.children[c].y /\ g.children[c].y + g.children[c].h <= g.h

\* A release of the followed item's gesture: onDragStop while the placeholder
\* is active, or after a drag-leave has cleared it.
ReleaseCall ==
  \/ \E x \in 0..(GridCols - 1), y \in 0..MaxY, dateNow \in 1..MaxClock :
       onDragStop(fnIn[1], x, y, dateNow)
  \/ onDragStopInactive(fnIn[1])

\* C39: every drag release that follows a drag start ends the gesture:
\* afterwards activeDrag and the grouping target are null, the droppable flag
\* is off and no grouping timeout is pending, also when a drag-leave has
\* removed the placeholder in the middle of the gesture.
C39_ReleaseEndsGesture ==
  [][ReleaseCall =>
       /\ activeDrag' = NoKey
       /\ groupingTarget' = NoKey
       /\ ~isGroupDroppable'
       /\ groupingTimer' = NoTimer
       /\ timers' = {}]_vars

\* C40: in every reachable state a set droppable flag comes with a grouping
\* target, and the grouping target is neither the dragged item nor a static
\* item.
C40_TargetIsAnotherMovableItem ==
  /\ isGroupDroppable => groupingTarget # NoKey
  /\ groupingTarget # NoKey =>
       /\ groupingTarget # activeDrag
       /\ \A k \in 1..Len(layout) :
            layout[k].i = groupingTarget => ~layout[k].static

\* The droppable flag is set during a drag on a layout that holds a static
\* item.
C40_Witness ==
  /\ isGroupDroppable
  /\ activeDrag # NoKey
  /\ getLayoutItem(layout, groupingTarget) # 0
  /\ \E k \in 1..Len(layout) : layout[k].static
====
